---- MODULE Spec2Model ----
(***************************************************************************)
(* State-machine model of the synchronisation subsystem of OpenSheets:     *)
(*   - SpreadsheetCRDT               (collaboration/crdt.ts)               *)
(*   - PersistenceManager.save       (persistence/PersistenceManager.ts)   *)
(*   - ApiAdapter offline queue      (persistence/ApiAdapter.ts)           *)
(*   - WebSocketCollaborationService (collaboration/websocketService.ts)   *)
(*   - LocalStorageAdapter           (persistence/LocalStorageAdapter.ts)  *)
(*   - the hybrid adapter            (persistence/PersistenceManager.ts)   *)
(*   - ApiAdapter.resolveConflicts   (persistence/ApiAdapter.ts)           *)
(*   - SpreadsheetProviderPersisted  (hooks/useMultiSelection.ts)          *)
(* Each subsystem has its own next-state relation and specification; the   *)
(* variables of the other subsystems stay at their initial values.         *)
(***************************************************************************)
EXTENDS Integers, Sequences, FiniteSets, TLC

VARIABLES
  \* ---- SpreadsheetCRDT replicas ----
  ops,        \* every operation emitted so far, indexed by its id
  crdt,       \* per replica: operations (ids), vectorClock, data
  now,        \* per replica: the value Date.now() returns
  \* ---- PersistenceManager.save / performSave ----
  pendingSave,  \* this.pendingSave
  saveQueue,    \* this.saveQueue: the queued closures, by save() call id
  frames,       \* per save() call: its performSave frame and its promise
  inflight,     \* adapter.save calls whose promise has not settled
  writeLog,     \* adapter.save calls in the order they were started
  microtasks,   \* the JavaScript microtask (promise job) queue, FIFO
  \* ---- ApiAdapter: offline queue and replay ----
  isOnline,     \* this.isOnline (mirrors navigator.onLine)
  offlineQueue, \* this.offlineQueue
  storedQueue,  \* localStorage['opensheets_offline_queue']
  syncStatus,   \* this.syncStatus
  drains,       \* per running procesOfflineQueue: its local queue, from the current entry on
  tasks,        \* per caller (0 = user, d = drain d): the request inside fetchWithRetry
  results,      \* per payload: the SaveResult the user's save() returned
  queuedOrder,  \* payloads in the order user calls put them in the offline queue
  reached,      \* payloads of the requests that reached the remote (any response)
  accepted,     \* payloads of the requests the remote answered 2xx
  issued,       \* the kinds of the user calls made so far; call n carries payload n
  restarts,     \* number of process restarts so far
  replays,      \* per payload: the requests procesOfflineQueue started for it (capped)
  \* ---- WebSocketCollaborationService and teardown ----
  sock,               \* readyState of the WebSocket made by the last connect()
  wsRef,              \* this.ws is not null
  connected,          \* the last value passed to onConnectionChange
  reconnectAttempts,  \* this.reconnectAttempts
  timer,              \* delay of the pending reconnect setTimeout, 0 when none
  heartbeatInterval,  \* this.heartbeatInterval is set (the interval is live)
  autoSaveTimer,      \* PersistenceManager.autoSaveTimer is set
  fatal,              \* onError(new Error('Failed to reconnect to server')) was called
  failures,           \* closes since the socket was last open
  disconnected,       \* disconnect() has been called
  connectedAfter,     \* connect() ran after disconnect() was called
  \* ---- LocalStorageAdapter and the hybrid adapter ----
  enableCompression,  \* LocalStorageAdapter.enableCompression
  lsMain,             \* localStorage[key]: the stored main payload
  lsFlag,             \* localStorage[key + '_compressed'] is 'true'
  lsMeta,             \* revision in localStorage[key + '_metadata'], 0 when absent
  lsVersions,         \* localStorage[key + '_versions']: the listed version ids
  lsVersionData,      \* localStorage[key + '_version_' + id], per version id
  created,            \* the snapshot passed to the saveVersion call that made version v
  evictedUpTo,        \* newest version that existed at the last freeUpSpace pass, 0 when none
  call,               \* the last LocalStorageAdapter call: argument before and after, result
  remoteDoc,          \* the document the remote store holds
  hyb,                \* the running or last hybrid save()/load(): position, argument, results
  \* ---- ApiAdapter: conflict resolution ----
  conflictStrategy,   \* config.conflictStrategy
  conflictResolution, \* SaveResult.conflictResolution of the last save()
  onConflictCalls,    \* the arguments of the calls of config.onConflict so far
  \* ---- SpreadsheetProviderPersisted: auto-save ----
  uiNow,              \* the time, in ms since the first render
  dataRev,            \* how many times state.data has been replaced
  lastMutationAt,     \* the time of the last replacement of state.data
  editing,            \* state.editing is not null
  autoSaveProp,       \* the autoSave prop
  hasUnsavedChanges,  \* hasUnsavedChanges.current
  lastSavedState,     \* lastSavedState.current
  uiTimer,            \* deadline of autoSaveTimer.current, NoTimer when cleared or run
  uiSaves,            \* saveData() calls so far
  uiPending,          \* saveData() calls that await their result
  lastStart,         \* the last saveData() call: who made it, when, in which state
  \* ---- one user, two SpreadsheetCRDT instances ----
  instCrdt,           \* the SpreadsheetCRDT of the ApiAdapter and that of its wsService
  emitted,            \* the operations emitted under the userId, in order
  broadcast,         \* the cell save() sends through updateCell after the response
  \* ---- ApiAdapter.mergeValues ----
  merged,            \* the last mergeValues call: its arguments and what it returned
  \* ---- WebSocketCollaborationService: presence ----
  presenceMap,        \* this.presenceMap
  wsNow               \* the time Date.now() returns to the service, in ms

crdtVars == <<ops, crdt, now>>

pmVars == <<pendingSave, saveQueue, frames, inflight, writeLog, microtasks>>

apiVars == <<isOnline, offlineQueue, storedQueue, syncStatus, drains,
             tasks, results, queuedOrder, reached, accepted, issued, restarts,
             replays>>

wsVars == <<sock, wsRef, connected, reconnectAttempts, timer, heartbeatInterval,
            autoSaveTimer, fatal, failures, disconnected, connectedAfter>>

lsVars == <<enableCompression, lsMain, lsFlag, lsMeta, lsVersions, lsVersionData,
            created, evictedUpTo, call, remoteDoc, hyb>>

cfVars == <<conflictStrategy, conflictResolution, onConflictCalls>>

uiVars == <<uiNow, dataRev, lastMutationAt, editing, autoSaveProp, hasUnsavedChanges,
            lastSavedState, uiTimer, uiSaves, uiPending, lastStart>>

vcVars == <<instCrdt, emitted, broadcast>>

mgVars == <<merged>>

prVars == <<presenceMap, wsNow>>

vars == <<ops, crdt, now,
          pendingSave, saveQueue, frames, inflight, writeLog, microtasks,
          isOnline, offlineQueue, storedQueue, syncStatus, drains,
          tasks, results, queuedOrder, reached, accepted, issued, restarts, replays,
          sock, wsRef, connected, reconnectAttempts, timer, heartbeatInterval,
          autoSaveTimer, fatal, failures, disconnected, connectedAfter,
          enableCompression, lsMain, lsFlag, lsMeta, lsVersions, lsVersionData,
          created, evictedUpTo, call, remoteDoc, hyb,
          conflictStrategy, conflictResolution, onConflictCalls,
          uiNow, dataRev, lastMutationAt, editing, autoSaveProp, hasUnsavedChanges,
          lastSavedState, uiTimer, uiSaves, uiPending, lastStart,
          instCrdt, emitted, broadcast,
          merged,
          presenceMap, wsNow>>

(***************************************************************************)
(* Bounds                                                                  *)
(***************************************************************************)
MaxOps == 2        \* operations emitted in total
MaxTime == 2       \* wall-clock values 1..MaxTime
MaxSyncLen == 2    \* operations carried by one sync message
MaxSaves == 5      \* PersistenceManager.save() calls made in total
MaxPayloads == 2   \* user save()/delete() calls on the ApiAdapter in total
MaxDeletes == 1    \* of which delete() calls
MaxDrains == 2     \* procesOfflineQueue runs that overlap
MaxRestarts == 1   \* process restarts
MaxRevision == 1   \* metadata.revision of a snapshot handed to save(): 0..MaxRevision
MaxExtraVersions == 1  \* saveVersion calls beyond maxVersions
MaxConflicts == 2  \* conflicts reported by one save response
MaxTicks == 4      \* time steps of half an auto-save interval
MaxMutations == 2  \* data changes in the editor
MaxUiSaves == 2    \* saveData() calls
MaxEmitted == 3     \* operations one user emits
MaxPresenceTicks == 4  \* time steps of half a staleness threshold

(***************************************************************************)
(* SpreadsheetCRDT                                                         *)
(***************************************************************************)
Users == {"u1", "u2"}
Cells == {"0:0", "0:1"}
Values == {"x", "y"}
NoCell == [value |-> "undefined", timestamp |-> 0, userId |-> "none"]

\* Lexicographic order of the userId strings: "u1" < "u2".
UserRank(u) == IF u = "u1" THEN 1 ELSE IF u = "u2" THEN 2 ELSE 0

ZeroClock == [u \in Users |-> 0]

Max(a, b) == IF a >= b THEN a ELSE b

\* new SpreadsheetCRDT(userId)
NewCRDT(u) ==
  [operations |-> {}, vectorClock |-> ZeroClock, data |-> [c \in Cells |-> NoCell]]

\* shouldApply(operation, existing)
shouldApply(operation, existing) ==
  IF operation.timestamp # existing.timestamp
  THEN operation.timestamp > existing.timestamp
  ELSE UserRank(operation.userId) > UserRank(existing.userId)

\* applyOperation(operation) on the replica state c
applyOperation(c, operation) ==
  LET key == operation.cell
      existing == c.data[key]
      clk == [u \in Users |-> Max(c.vectorClock[u], operation.vectorClock[u])]
      newData ==
        IF existing = NoCell \/ shouldApply(operation, existing)
        THEN IF operation.type = "set"
             THEN [c.data EXCEPT ![key] = [value |-> operation.data,
                                          timestamp |-> operation.timestamp,
                                          userId |-> operation.userId]]
             ELSE [c.data EXCEPT ![key] = NoCell]
        ELSE c.data
  IN [operations |-> c.operations \cup {operation.id},
      vectorClock |-> clk,
      data |-> newData]

\* getCell(row, col)
getCell(c, key) == c.data[key].value

\* incrementClock()
incrementClock(c, u) == [c.vectorClock EXCEPT ![u] = c.vectorClock[u] + 1]

\* applying a list of operations one after the other (forEach)
RECURSIVE applyAll(_, _)
applyAll(c, list) ==
  IF list = <<>> THEN c
  ELSE applyAll(applyOperation(c, ops[Head(list)]), Tail(list))

\* the ids of a set as a sequence in insertion (= id) order
RECURSIVE SetToSeq(_)
SetToSeq(S) ==
  IF S = {} THEN <<>>
  ELSE LET m == CHOOSE x \in S : \A y \in S : x <= y
       IN <<m>> \o SetToSeq(S \ {m})

\* merge(other): apply the operations of other this replica does not hold
merge(c, other) ==
  applyAll(c, SetToSeq({i \in other.operations : i \notin c.operations}))

\* setCell(row, col, data) on replica u
SetCell(u, key, v) ==
  /\ Len(ops) < MaxOps
  /\ LET operation == [id |-> Len(ops) + 1,
                       timestamp |-> now[u],
                       userId |-> u,
                       type |-> "set",
                       cell |-> key,
                       data |-> v,
                       vectorClock |-> incrementClock(crdt[u], u)]
         c1 == [crdt[u] EXCEPT !.vectorClock = operation.vectorClock]
     IN /\ ops' = Append(ops, operation)
        /\ crdt' = [crdt EXCEPT ![u] = applyOperation(c1, operation)]
  /\ UNCHANGED now

\* deleteCell(row, col) on replica u
DeleteCell(u, key) ==
  /\ Len(ops) < MaxOps
  /\ LET operation == [id |-> Len(ops) + 1,
                       timestamp |-> now[u],
                       userId |-> u,
                       type |-> "delete",
                       cell |-> key,
                       data |-> "undefined",
                       vectorClock |-> incrementClock(crdt[u], u)]
         c1 == [crdt[u] EXCEPT !.vectorClock = operation.vectorClock]
     IN /\ ops' = Append(ops, operation)
        /\ crdt' = [crdt EXCEPT ![u] = applyOperation(c1, operation)]
  /\ UNCHANGED now

\* WebSocketCollaborationService.handleOperation: an 'operation' message
HandleOperation(u, i) ==
  /\ i \in 1..Len(ops)
  /\ crdt' = [crdt EXCEPT ![u] = IF ops[i].userId = u THEN crdt[u]
                                  ELSE applyOperation(crdt[u], ops[i])]
  /\ UNCHANGED <<ops, now>>

\* the operation lists a sync message can carry
SyncLists ==
  UNION {[1..n -> 1..Len(ops)] : n \in 1..MaxSyncLen}

\* WebSocketCollaborationService.handleSync: a 'sync' message
HandleSync(u, list) ==
  /\ crdt' = [crdt EXCEPT ![u] = applyAll(crdt[u], list)]
  /\ UNCHANGED <<ops, now>>

\* replica u merges the state of replica w
Merge(u, w) ==
  /\ u # w
  /\ crdt' = [crdt EXCEPT ![u] = merge(crdt[u], crdt[w])]
  /\ UNCHANGED <<ops, now>>

\* the wall clock of replica u advances
Tick(u) ==
  /\ now[u] < MaxTime
  /\ now' = [now EXCEPT ![u] = now[u] + 1]
  /\ UNCHANGED <<ops, crdt>>

InitCRDT ==
  /\ ops = <<>>
  /\ crdt = [u \in Users |-> NewCRDT(u)]
  /\ now = [u \in Users |-> 1]

NextCRDT ==
  \/ (\E u \in Users, key \in Cells, v \in Values : SetCell(u, key, v)) /\ UNCHANGED <<pmVars, apiVars, wsVars, lsVars, cfVars, uiVars, vcVars, mgVars, prVars>>
  \/ (\E u \in Users, key \in Cells : DeleteCell(u, key)) /\ UNCHANGED <<pmVars, apiVars, wsVars, lsVars, cfVars, uiVars, vcVars, mgVars, prVars>>
  \/ (\E u \in Users, i \in 1..Len(ops) : HandleOperation(u, i)) /\ UNCHANGED <<pmVars, apiVars, wsVars, lsVars, cfVars, uiVars, vcVars, mgVars, prVars>>
  \/ (\E u \in Users, list \in SyncLists : HandleSync(u, list)) /\ UNCHANGED <<pmVars, apiVars, wsVars, lsVars, cfVars, uiVars, vcVars, mgVars, prVars>>
  \/ (\E u \in Users, w \in Users : Merge(u, w)) /\ UNCHANGED <<pmVars, apiVars, wsVars, lsVars, cfVars, uiVars, vcVars, mgVars, prVars>>
  \/ (\E u \in Users : Tick(u)) /\ UNCHANGED <<pmVars, apiVars, wsVars, lsVars, cfVars, uiVars, vcVars, mgVars, prVars>>

(***************************************************************************)
(* Claims about SpreadsheetCRDT (checked under SpecCRDT)                   *)
(***************************************************************************)

\* C1 (as claimed): Convergence. Two replicas that have applied the same set
\* of operations (each at least once, in any order, with duplicates) return
\* the same getCell value for every coordinate.
C1_Convergence ==
  \A u \in Users, w \in Users :
    crdt[u].operations = crdt[w].operations
      => \A key \in Cells : getCell(crdt[u], key) = getCell(crdt[w], key)

\* the effect an operation has when it wins its cell
EffectOf(operation) ==
  IF operation.type = "set" THEN operation.data ELSE "undefined"

\* C7 (as claimed): Deterministic tie-break. A replica that has applied
\* exactly two operations on the same coordinate, with equal timestamp and
\* different originId, holds the effect of the operation with the higher
\* originId, whatever the order of application and the kinds.
C7_TieBreak ==
  \A u \in Users : \A a \in 1..Len(ops), b \in 1..Len(ops) :
    ( /\ a # b
      /\ ops[a].cell = ops[b].cell
      /\ ops[a].timestamp = ops[b].timestamp
      /\ UserRank(ops[a].userId) < UserRank(ops[b].userId)
      /\ crdt[u].operations = {a, b} )
    => getCell(crdt[u], ops[b].cell) = EffectOf(ops[b])

\* a sync message re-delivers operation i, which replica u already applied
ApplyDuplicate(u, i) ==
  /\ i \in crdt[u].operations
  /\ HandleSync(u, <<i>>)

\* C8 (as claimed): Idempotence by id. Applying an operation whose id the
\* replica has already applied leaves every cell value and the vector clock
\* unchanged.
C8_IdempotentById ==
  [][\A u \in Users : \A i \in 1..Len(ops) :
       ApplyDuplicate(u, i) =>
         /\ crdt'[u].data = crdt[u].data
         /\ crdt'[u].vectorClock = crdt[u].vectorClock]_vars


(***************************************************************************)
(* PersistenceManager.save / performSave                                   *)
(*                                                                         *)
(* JavaScript runs a handler to completion, then the queued promise jobs   *)
(* (microtasks) in FIFO order, and only then the next event (a timer, a    *)
(* network response, a user action).  Each await of the source is a        *)
(* microtask here; an event fires only when the microtask queue is empty.  *)
(***************************************************************************)
SaveIds == 1..MaxSaves

NoFrame == [phase |-> "unused", parent |-> 0, behind |-> {},
            promise |-> "pending", result |-> 0]

\* the id the next save() call gets
NextCall == Cardinality({i \in SaveIds : frames[i].phase # "unused"}) + 1

Job(kind, id, ok) == [kind |-> kind, id |-> id, ok |-> ok]

\* who awaits the promise of performSave(i): save() itself (a direct call),
\* or the queued closure that called it
Awaiter(i, ok) ==
  IF frames[i].parent = 0 THEN Job("saveRet", i, ok) ELSE Job("closureCont", i, ok)

\* performSave(state) up to its await: pendingSave = true; adapter.save(...)
\* is called.  rest is the microtask queue the step leaves behind.
StartPerformSave(i, parent, fr, rest) ==
  /\ pendingSave' = TRUE
  /\ inflight' = inflight \cup {i}
  /\ writeLog' = Append(writeLog, i)
  /\ frames' = [fr EXCEPT ![i].phase = "awaitAdapter", ![i].parent = parent]
  /\ microtasks' = rest

\* save(state): queue a closure while a save is pending, else performSave
SaveBody(i, rest) ==
  IF pendingSave
  THEN /\ saveQueue' = Append(saveQueue, i)
       /\ frames' = [frames EXCEPT ![i].phase = "queued", ![i].behind = inflight]
       /\ microtasks' = rest
       /\ UNCHANGED <<pendingSave, inflight, writeLog>>
  ELSE /\ StartPerformSave(i, 0, frames, rest)
       /\ UNCHANGED saveQueue

\* an event handler (timer, key press) calls save()
CallSave ==
  /\ microtasks = <<>>
  /\ NextCall <= MaxSaves
  /\ SaveBody(NextCall, <<>>)

\* the backend write of call i completes: adapter.save's promise fulfils
BackendResolve(i) ==
  /\ microtasks = <<>>
  /\ i \in inflight
  /\ inflight' = inflight \ {i}
  /\ microtasks' = <<Job("perfCont", i, TRUE)>>
  /\ UNCHANGED <<pendingSave, saveQueue, frames, writeLog>>

\* the backend write of call i fails: adapter.save's promise rejects
BackendReject(i) ==
  /\ microtasks = <<>>
  /\ i \in inflight
  /\ inflight' = inflight \ {i}
  /\ microtasks' = <<Job("perfCont", i, FALSE)>>
  /\ UNCHANGED <<pendingSave, saveQueue, frames, writeLog>>

\* performSave frame k at the head of its while loop: run the next queued
\* closure (which calls performSave), or return through finally
LoopStep(k) ==
  IF saveQueue # <<>>
  THEN /\ saveQueue' = Tail(saveQueue)
       /\ StartPerformSave(Head(saveQueue), k,
                           [frames EXCEPT ![k].phase = "awaitClosure"],
                           Tail(microtasks))
  ELSE /\ pendingSave' = FALSE
       /\ frames' = [frames EXCEPT ![k].phase = "returned"]
       /\ microtasks' = Append(Tail(microtasks), Awaiter(k, TRUE))
       /\ UNCHANGED <<saveQueue, inflight, writeLog>>

\* performSave frame k leaves by an exception: only finally runs
ThrowOut(k) ==
  /\ pendingSave' = FALSE
  /\ frames' = [frames EXCEPT ![k].phase = "threw"]
  /\ microtasks' = Append(Tail(microtasks), Awaiter(k, FALSE))
  /\ UNCHANGED <<saveQueue, inflight, writeLog>>

\* performSave resumes after `await this.adapter.save(...)`
PerfCont ==
  /\ microtasks # <<>>
  /\ Head(microtasks).kind = "perfCont"
  /\ IF Head(microtasks).ok THEN LoopStep(Head(microtasks).id)
                            ELSE ThrowOut(Head(microtasks).id)

\* performSave resumes after `await nextSave?.()`
LoopCont ==
  /\ microtasks # <<>>
  /\ Head(microtasks).kind = "loopCont"
  /\ IF Head(microtasks).ok THEN LoopStep(Head(microtasks).id)
                            ELSE ThrowOut(Head(microtasks).id)

\* the queued closure resumes after `await this.performSave(state)`:
\* resolve(result), then the closure returns to the loop that called it;
\* when performSave threw, resolve is never called
ClosureCont ==
  /\ microtasks # <<>>
  /\ Head(microtasks).kind = "closureCont"
  /\ LET i == Head(microtasks).id
         back == Job("loopCont", frames[i].parent, Head(microtasks).ok)
     IN microtasks' =
          IF Head(microtasks).ok
          THEN Tail(microtasks) \o <<Job("saveRet", i, TRUE), back>>
          ELSE Append(Tail(microtasks), back)
  /\ UNCHANGED <<pendingSave, saveQueue, frames, inflight, writeLog>>

\* the promise save() returned settles with the result of the call's write
SaveRet ==
  /\ microtasks # <<>>
  /\ Head(microtasks).kind = "saveRet"
  /\ LET i == Head(microtasks).id
     IN /\ frames' = [frames EXCEPT
                        ![i].promise = IF Head(microtasks).ok THEN "fulfilled"
                                       ELSE "rejected",
                        ![i].result = IF Head(microtasks).ok THEN i ELSE 0]
        /\ microtasks' = Append(Tail(microtasks), Job("callerCont", i, TRUE))
  /\ UNCHANGED <<pendingSave, saveQueue, inflight, writeLog>>

\* the caller's code after `await manager.save(state)`: it does nothing more
CallerDone ==
  /\ microtasks # <<>>
  /\ Head(microtasks).kind = "callerCont"
  /\ microtasks' = Tail(microtasks)
  /\ UNCHANGED <<pendingSave, saveQueue, frames, inflight, writeLog>>

\* the caller's code after `await manager.save(state)`: it saves again
CallerSavesAgain ==
  /\ microtasks # <<>>
  /\ Head(microtasks).kind = "callerCont"
  /\ NextCall <= MaxSaves
  /\ SaveBody(NextCall, Tail(microtasks))

InitPM ==
  /\ pendingSave = FALSE
  /\ saveQueue = <<>>
  /\ frames = [i \in SaveIds |-> NoFrame]
  /\ inflight = {}
  /\ writeLog = <<>>
  /\ microtasks = <<>>

NextPM ==
  \/ CallSave /\ UNCHANGED <<crdtVars, apiVars, wsVars, lsVars, cfVars, uiVars, vcVars, mgVars, prVars>>
  \/ (\E i \in SaveIds : BackendResolve(i)) /\ UNCHANGED <<crdtVars, apiVars, wsVars, lsVars, cfVars, uiVars, vcVars, mgVars, prVars>>
  \/ (\E i \in SaveIds : BackendReject(i)) /\ UNCHANGED <<crdtVars, apiVars, wsVars, lsVars, cfVars, uiVars, vcVars, mgVars, prVars>>
  \/ PerfCont /\ UNCHANGED <<crdtVars, apiVars, wsVars, lsVars, cfVars, uiVars, vcVars, mgVars, prVars>>
  \/ LoopCont /\ UNCHANGED <<crdtVars, apiVars, wsVars, lsVars, cfVars, uiVars, vcVars, mgVars, prVars>>
  \/ ClosureCont /\ UNCHANGED <<crdtVars, apiVars, wsVars, lsVars, cfVars, uiVars, vcVars, mgVars, prVars>>
  \/ SaveRet /\ UNCHANGED <<crdtVars, apiVars, wsVars, lsVars, cfVars, uiVars, vcVars, mgVars, prVars>>
  \/ CallerDone /\ UNCHANGED <<crdtVars, apiVars, wsVars, lsVars, cfVars, uiVars, vcVars, mgVars, prVars>>
  \/ CallerSavesAgain /\ UNCHANGED <<crdtVars, apiVars, wsVars, lsVars, cfVars, uiVars, vcVars, mgVars, prVars>>

(***************************************************************************)
(* Claims about PersistenceManager.save (checked under SpecPM)             *)
(***************************************************************************)

\* C2 (as claimed): At most one in-flight write. There are never two
\* adapter.save writes in flight at the same time.
C2_AtMostOneInFlight == Cardinality(inflight) <= 1

\* the save() calls that were queued while write w was pending
QueuedBehind(w) == {i \in SaveIds : frames[i].phase # "unused" /\ w \in frames[i].behind}

\* C3 (as claimed): Coalescing. The save() calls queued while one write is
\* pending produce one additional backend write, not one each, and every one
\* of them resolves with the result of that single write.
C3_Coalescing ==
  \A w \in SaveIds :
    /\ Cardinality({i \in QueuedBehind(w) : \E n \in 1..Len(writeLog) : writeLog[n] = i}) <= 1
    /\ \A i \in QueuedBehind(w), j \in QueuedBehind(w) :
         (frames[i].promise = "fulfilled" /\ frames[j].promise = "fulfilled")
           => frames[i].result = frames[j].result


(***************************************************************************)
(* ApiAdapter: save, delete, fetchWithRetry, the offline queue and its     *)
(* replay.  A payload number stands for the {id, state} a user call        *)
(* carries.  The adapter's CRDT, the conflict handling and the WebSocket   *)
(* broadcast of save() do not touch the queue and are left out here.       *)
(***************************************************************************)
retryAttempts == 3    \* config.retryAttempts default
retryDelay == 1000    \* config.retryDelay default (ms)

\* Math.pow(2, n)
RECURSIVE Pow2(_)
Pow2(n) == IF n <= 0 THEN 1 ELSE 2 * Pow2(n - 1)

Payloads == 1..MaxPayloads
Owners == 0..MaxDrains
DrainIds == 1..MaxDrains

OfflineOperation(type, p, r) == [type |-> type, payload |-> p, retries |-> r]
\* a running save()/delete(): loop index i of fetchWithRetry, whether it awaits
\* fetch or the backoff timer, the timer's delay, the previous attempt's outcome
NoTask == [type |-> "none", payload |-> 0, i |-> 0, phase |-> "idle",
           delay |-> 0, last |-> "none"]
FetchTask(type, p) == [type |-> type, payload |-> p, i |-> 0, phase |-> "fetch",
                       delay |-> 0, last |-> "none"]
\* what save() returned, why, and after how many fetches
NoResult == [success |-> FALSE, queued |-> FALSE, cause |-> "none", fetches |-> 0]
NoStored == [present |-> FALSE, queue |-> <<>>]
\* connected, syncing, error; pendingChanges is left out: getSyncStatus()
\* always reports offlineQueue.length in its place
InitialStatus == [connected |-> FALSE, syncing |-> FALSE, error |-> FALSE]

\* the part of the adapter the helpers below update
Adapter == [offlineQueue |-> offlineQueue, storedQueue |-> storedQueue,
            syncStatus |-> syncStatus]

\* queueOfflineOperation(operation)
queueOfflineOperation(A, operation) ==
  LET q == Append(A.offlineQueue, operation)
  IN [offlineQueue |-> q,
      storedQueue |-> [present |-> TRUE, queue |-> q],
      syncStatus |-> A.syncStatus]

\* save(): updateSyncStatus({syncing: true}) at entry
saveEntry(A) == [A EXCEPT !.syncStatus.syncing = TRUE]

\* save() while offline: queue the write, return success
saveOffline(A, p) ==
  queueOfflineOperation(saveEntry(A), OfflineOperation("save", p, 0))

\* save() after a 2xx response
saveOk(A) ==
  [A EXCEPT !.syncStatus.syncing = FALSE]

\* save(), catch block: queue only when offline, report the failure
saveCatch(A, p, online) ==
  LET A1 == IF ~online THEN queueOfflineOperation(A, OfflineOperation("save", p, 0))
            ELSE A
  IN [A1 EXCEPT !.syncStatus.syncing = FALSE, !.syncStatus.error = TRUE]

\* the call of save()/delete() for a queue entry, up to its first await,
\* while offline: the entry is queued again as a new operation
callOffline(A, operation) ==
  IF operation.type = "save" THEN saveOffline(A, operation.payload)
  ELSE queueOfflineOperation(A, OfflineOperation("delete", operation.payload, 0))

\* procesOfflineQueue, after its for loop
drainEnd(A) ==
  [A EXCEPT !.storedQueue = IF Len(A.offlineQueue) > 0
                            THEN [present |-> TRUE, queue |-> A.offlineQueue]
                            ELSE NoStored]

\* procesOfflineQueue, the for loop from entry Head(rest) on, run until a
\* request is awaited (rest is then non-empty) or the loop ends
RECURSIVE drainLoop(_, _, _)
drainLoop(A, rest, online) ==
  IF rest = <<>> THEN [A |-> drainEnd(A), rest |-> <<>>]
  ELSE IF online
       THEN [A |-> IF Head(rest).type = "save" THEN saveEntry(A) ELSE A,
             rest |-> rest]
       ELSE drainLoop(callOffline(A, Head(rest)), Tail(rest), online)

\* procesOfflineQueue, catch block: retries++, re-queue under the budget
drainCatch(A, operation) ==
  IF operation.retries + 1 < retryAttempts
  THEN [A EXCEPT !.offlineQueue =
          Append(A.offlineQueue, [operation EXCEPT !.retries = operation.retries + 1])]
  ELSE A

\* procesOfflineQueue starts the request of the entry with payload p
Replayed(p) ==
  [replays EXCEPT ![p] = IF @ <= retryAttempts THEN @ + 1 ELSE @]

FreeDrains == {d \in DrainIds : drains[d] = <<>>}

\* procesOfflineQueue(), called with connectivity `online`, the adapter A
procesOfflineQueue(A, online) ==
  IF A.offlineQueue = <<>> \/ ~online
  THEN /\ offlineQueue' = A.offlineQueue
       /\ storedQueue' = A.storedQueue
       /\ syncStatus' = A.syncStatus
       /\ UNCHANGED <<drains, tasks, replays>>
  ELSE /\ FreeDrains # {}
       /\ LET d == CHOOSE x \in FreeDrains : \A y \in FreeDrains : x <= y
              run == drainLoop([A EXCEPT !.offlineQueue = <<>>], A.offlineQueue, online)
          IN /\ offlineQueue' = run.A.offlineQueue
             /\ storedQueue' = run.A.storedQueue
             /\ syncStatus' = run.A.syncStatus
             /\ drains' = [drains EXCEPT ![d] = run.rest]
             /\ tasks' = [tasks EXCEPT ![d] =
                            FetchTask(Head(run.rest).type, Head(run.rest).payload)]
             /\ replays' = Replayed(Head(run.rest).payload)

\* window 'online' event
OnlineEvent ==
  /\ ~isOnline
  /\ isOnline' = TRUE
  /\ procesOfflineQueue([Adapter EXCEPT !.syncStatus.connected = TRUE], TRUE)
  /\ UNCHANGED <<results, queuedOrder, reached, accepted, issued, restarts>>

\* window 'offline' event
OfflineEvent ==
  /\ isOnline
  /\ isOnline' = FALSE
  /\ syncStatus' = [syncStatus EXCEPT !.connected = FALSE]
  /\ UNCHANGED <<offlineQueue, storedQueue, drains, tasks, results,
                 queuedOrder, reached, accepted, issued, restarts, replays>>

\* wsService.onConnectionChange(true)
WsConnected ==
  /\ procesOfflineQueue([Adapter EXCEPT !.syncStatus.connected = TRUE], isOnline)
  /\ UNCHANGED <<isOnline, results, queuedOrder, reached, accepted, issued, restarts>>

\* wsService.onConnectionChange(false)
WsDisconnected ==
  /\ syncStatus' = [syncStatus EXCEPT !.connected = FALSE]
  /\ UNCHANGED <<isOnline, offlineQueue, storedQueue, drains, tasks, results,
                 queuedOrder, reached, accepted, issued, restarts, replays>>

SetAdapter(A) ==
  /\ offlineQueue' = A.offlineQueue
  /\ storedQueue' = A.storedQueue
  /\ syncStatus' = A.syncStatus

\* the user calls save(id, state)
UserSave ==
  /\ tasks[0] = NoTask
  /\ Len(issued) < MaxPayloads
  /\ issued' = Append(issued, "save")
  /\ LET p == Len(issued) + 1
     IN IF ~isOnline
        THEN /\ SetAdapter(saveOffline(Adapter, p))
             /\ results' = [results EXCEPT ![p] =
                  [success |-> TRUE, queued |-> TRUE, cause |-> "offline", fetches |-> 0]]
             /\ queuedOrder' = Append(queuedOrder, p)
             /\ UNCHANGED tasks
        ELSE /\ SetAdapter(saveEntry(Adapter))
             /\ tasks' = [tasks EXCEPT ![0] = FetchTask("save", p)]
             /\ UNCHANGED <<results, queuedOrder>>
  /\ UNCHANGED <<isOnline, drains, reached, accepted, restarts, replays>>

\* the user calls delete(id)
UserDelete ==
  /\ tasks[0] = NoTask
  /\ Len(issued) < MaxPayloads
  /\ Cardinality({n \in 1..Len(issued) : issued[n] = "delete"}) < MaxDeletes
  /\ issued' = Append(issued, "delete")
  /\ LET p == Len(issued) + 1
     IN IF ~isOnline
        THEN /\ SetAdapter(queueOfflineOperation(Adapter, OfflineOperation("delete", p, 0)))
             /\ queuedOrder' = Append(queuedOrder, p)
             /\ UNCHANGED tasks
        ELSE /\ tasks' = [tasks EXCEPT ![0] = FetchTask("delete", p)]
             /\ UNCHANGED <<offlineQueue, storedQueue, syncStatus, queuedOrder>>
  /\ UNCHANGED <<isOnline, drains, results, reached, accepted, restarts, replays>>

\* the save()/delete() call of owner o has returned (threw: by an exception)
\* leaving the adapter as A: the user's call ends, a drain goes on
Finish(o, A, threw) ==
  IF o = 0
  THEN /\ SetAdapter(A)
       /\ tasks' = [tasks EXCEPT ![0] = NoTask]
       /\ UNCHANGED <<drains, replays>>
  ELSE LET A1 == IF threw THEN drainCatch(A, Head(drains[o])) ELSE A
           run == drainLoop(A1, Tail(drains[o]), isOnline)
       IN /\ SetAdapter(run.A)
          /\ drains' = [drains EXCEPT ![o] = run.rest]
          /\ tasks' = [tasks EXCEPT ![o] =
                         IF run.rest = <<>> THEN NoTask
                         ELSE FetchTask(Head(run.rest).type, Head(run.rest).payload)]
          /\ replays' = IF run.rest = <<>> THEN replays
                        ELSE Replayed(Head(run.rest).payload)

\* what the user's save() returns
Returns(o, p, res) ==
  IF o = 0 /\ tasks[o].type = "save"
  THEN results' = [results EXCEPT ![p] = res]
  ELSE UNCHANGED results

\* save()/delete() after fetchWithRetry threw or returned a 4xx response
CallFailed(o, cause) ==
  LET t == tasks[o]
      nowQueued == t.type = "save" /\ ~isOnline
  IN /\ IF t.type = "save"
        THEN Finish(o, saveCatch(Adapter, t.payload, isOnline), FALSE)
        ELSE Finish(o, Adapter, TRUE)
     /\ Returns(o, t.payload, [success |-> FALSE, queued |-> nowQueued, cause |-> cause,
                              fetches |-> t.i + 1])
     /\ queuedOrder' = IF o = 0 /\ nowQueued THEN Append(queuedOrder, t.payload)
                       ELSE queuedOrder

\* fetch resolves with a 2xx response
FetchOk(o) ==
  /\ tasks[o].phase = "fetch"
  /\ isOnline
  /\ reached' = reached \cup {tasks[o].payload}
  /\ accepted' = accepted \cup {tasks[o].payload}
  /\ Finish(o, IF tasks[o].type = "save" THEN saveOk(Adapter) ELSE Adapter, FALSE)
  /\ Returns(o, tasks[o].payload, [success |-> TRUE, queued |-> FALSE, cause |-> "ok",
                                  fetches |-> tasks[o].i + 1])
  /\ UNCHANGED <<isOnline, queuedOrder, issued, restarts>>

\* fetchWithRetry, catch block after attempt i: wait, or give up
AttemptFailed(o, outcome) ==
  IF tasks[o].i < retryAttempts - 1
  THEN /\ tasks' = [tasks EXCEPT ![o].phase = "wait", ![o].last = outcome,
                                 ![o].delay = retryDelay * Pow2(tasks[o].i)]
       /\ UNCHANGED <<offlineQueue, storedQueue, syncStatus, drains, results,
                      queuedOrder, replays>>
  ELSE CallFailed(o, "exhausted")

\* a fetchWithRetry that treats a 4xx response like a 5xx one
FetchClientError_retried(o) ==
  /\ tasks[o].phase = "fetch"
  /\ isOnline
  /\ reached' = reached \cup {tasks[o].payload}
  /\ AttemptFailed(o, "4xx")
  /\ UNCHANGED <<isOnline, accepted, issued, restarts>>

\* fetch resolves with a 4xx response: returned at once, never retried
FetchClientError(o) ==
  /\ tasks[o].phase = "fetch"
  /\ isOnline
  /\ reached' = reached \cup {tasks[o].payload}
  /\ CallFailed(o, "rejected")
  /\ UNCHANGED <<isOnline, accepted, issued, restarts>>

\* fetch resolves with a 5xx response
FetchServerError(o) ==
  /\ tasks[o].phase = "fetch"
  /\ isOnline
  /\ reached' = reached \cup {tasks[o].payload}
  /\ AttemptFailed(o, "5xx")
  /\ UNCHANGED <<isOnline, accepted, issued, restarts>>

\* fetch rejects: the request did not reach the remote
FetchNetworkError(o) ==
  /\ tasks[o].phase = "fetch"
  /\ AttemptFailed(o, "network")
  /\ UNCHANGED <<isOnline, reached, accepted, issued, restarts>>

\* fetchWithRetry: the backoff timer fires, the next attempt starts
BackoffTimer(o) ==
  /\ tasks[o].phase = "wait"
  /\ tasks' = [tasks EXCEPT ![o].phase = "fetch", ![o].i = tasks[o].i + 1,
                               ![o].delay = 0]
  /\ UNCHANGED <<isOnline, offlineQueue, storedQueue, syncStatus, drains,
                 results, queuedOrder, reached, accepted, issued, restarts, replays>>

\* the process restarts: new PersistenceManager (loadOfflineQueue only reads
\* and logs the stored queue) and new ApiAdapter; localStorage stays
Restart ==
  /\ restarts < MaxRestarts
  /\ restarts' = restarts + 1
  /\ offlineQueue' = <<>>
  /\ syncStatus' = InitialStatus
  /\ drains' = [d \in DrainIds |-> <<>>]
  /\ tasks' = [o \in Owners |-> NoTask]
  /\ UNCHANGED <<isOnline, storedQueue, results, queuedOrder, reached, accepted, issued,
                 replays>>

InitApi ==
  /\ isOnline = TRUE
  /\ offlineQueue = <<>>
  /\ storedQueue = NoStored
  /\ syncStatus = InitialStatus
  /\ drains = [d \in DrainIds |-> <<>>]
  /\ tasks = [o \in Owners |-> NoTask]
  /\ results = [p \in Payloads |-> NoResult]
  /\ queuedOrder = <<>>
  /\ reached = {}
  /\ accepted = {}
  /\ issued = <<>>
  /\ restarts = 0
  /\ replays = [p \in Payloads |-> 0]

NextApi ==
  \/ OnlineEvent /\ UNCHANGED <<crdtVars, pmVars, wsVars, lsVars, cfVars, uiVars, vcVars, mgVars, prVars>>
  \/ OfflineEvent /\ UNCHANGED <<crdtVars, pmVars, wsVars, lsVars, cfVars, uiVars, vcVars, mgVars, prVars>>
  \/ WsConnected /\ UNCHANGED <<crdtVars, pmVars, wsVars, lsVars, cfVars, uiVars, vcVars, mgVars, prVars>>
  \/ WsDisconnected /\ UNCHANGED <<crdtVars, pmVars, wsVars, lsVars, cfVars, uiVars, vcVars, mgVars, prVars>>
  \/ UserSave /\ UNCHANGED <<crdtVars, pmVars, wsVars, lsVars, cfVars, uiVars, vcVars, mgVars, prVars>>
  \/ UserDelete /\ UNCHANGED <<crdtVars, pmVars, wsVars, lsVars, cfVars, uiVars, vcVars, mgVars, prVars>>
  \/ (\E o \in Owners : FetchOk(o)) /\ UNCHANGED <<crdtVars, pmVars, wsVars, lsVars, cfVars, uiVars, vcVars, mgVars, prVars>>
  \/ (\E o \in Owners : FetchClientError(o)) /\ UNCHANGED <<crdtVars, pmVars, wsVars, lsVars, cfVars, uiVars, vcVars, mgVars, prVars>>
  \/ (\E o \in Owners : FetchServerError(o)) /\ UNCHANGED <<crdtVars, pmVars, wsVars, lsVars, cfVars, uiVars, vcVars, mgVars, prVars>>
  \/ (\E o \in Owners : FetchNetworkError(o)) /\ UNCHANGED <<crdtVars, pmVars, wsVars, lsVars, cfVars, uiVars, vcVars, mgVars, prVars>>
  \/ (\E o \in Owners : BackoffTimer(o)) /\ UNCHANGED <<crdtVars, pmVars, wsVars, lsVars, cfVars, uiVars, vcVars, mgVars, prVars>>
  \/ Restart /\ UNCHANGED <<crdtVars, pmVars, wsVars, lsVars, cfVars, uiVars, vcVars, mgVars, prVars>>

\* save() and delete() called while the browser stays online, no replay:
\* the steps of fetchWithRetry alone
NextRetry ==
  \/ UserSave /\ UNCHANGED <<crdtVars, pmVars, wsVars, lsVars, cfVars, uiVars, vcVars, mgVars, prVars>>
  \/ UserDelete /\ UNCHANGED <<crdtVars, pmVars, wsVars, lsVars, cfVars, uiVars, vcVars, mgVars, prVars>>
  \/ (\E o \in Owners : FetchOk(o)) /\ UNCHANGED <<crdtVars, pmVars, wsVars, lsVars, cfVars, uiVars, vcVars, mgVars, prVars>>
  \/ (\E o \in Owners : FetchClientError(o)) /\ UNCHANGED <<crdtVars, pmVars, wsVars, lsVars, cfVars, uiVars, vcVars, mgVars, prVars>>
  \/ (\E o \in Owners : FetchServerError(o)) /\ UNCHANGED <<crdtVars, pmVars, wsVars, lsVars, cfVars, uiVars, vcVars, mgVars, prVars>>
  \/ (\E o \in Owners : FetchNetworkError(o)) /\ UNCHANGED <<crdtVars, pmVars, wsVars, lsVars, cfVars, uiVars, vcVars, mgVars, prVars>>
  \/ (\E o \in Owners : BackoffTimer(o)) /\ UNCHANGED <<crdtVars, pmVars, wsVars, lsVars, cfVars, uiVars, vcVars, mgVars, prVars>>

(***************************************************************************)
(* Claims about the retry budget of queue entries (checked under SpecApi)  *)
(***************************************************************************)

\* C23 (as claimed): Offline retry budget. procesOfflineQueue starts the
\* request of one queued operation at most retryAttempts times, and an
\* operation that is in the queue again after a replay carries a retries
\* count of at least one.
C23_RetryBudget ==
  /\ \A p \in Payloads : replays[p] <= retryAttempts
  /\ \A k \in 1..Len(offlineQueue) :
       replays[offlineQueue[k].payload] > 0 => offlineQueue[k].retries >= 1

(***************************************************************************)
(* Claims about the sync status (checked under SpecApi)                    *)
(***************************************************************************)

\* no save() or delete() call is running and no queue replay is under way
NoCallRunning ==
  /\ \A o \in Owners : tasks[o] = NoTask
  /\ \A d \in DrainIds : drains[d] = <<>>

\* C19: Sync status state machine. Every save() that set syncing to true has
\* set it back to false by the time it returns, on every return path, the
\* one that queues the write while offline included: whenever no call is
\* running, syncing is false.
C19_SyncingEnds == NoCallRunning => ~syncStatus.syncing

(***************************************************************************)
(* Claims about fetchWithRetry (checked under SpecRetry)                   *)
(***************************************************************************)

\* C11: fetchWithRetry makes a further attempt only after a 5xx response or
\* a network failure (a 4xx response ends the call at once), it waits
\* retryDelay * 2^i after failed attempt i before the next one, it makes at
\* most retryAttempts fetches, and a save whose fetch succeeds within that
\* budget (after zero, one or two transient failures) returns success.
C11_RetryPolicy ==
  /\ \A o \in Owners :
       /\ tasks[o].phase \in {"fetch", "wait"} => tasks[o].i + 1 <= retryAttempts
       /\ tasks[o].phase = "fetch" /\ tasks[o].i > 0 =>
             tasks[o].last \in {"5xx", "network"}
       /\ tasks[o].phase = "wait" =>
             /\ tasks[o].last \in {"5xx", "network"}
             /\ tasks[o].i + 1 < retryAttempts
             /\ tasks[o].delay = retryDelay * Pow2(tasks[o].i)
  /\ \A p \in Payloads :
       /\ results[p].fetches <= retryAttempts
       /\ results[p].cause = "exhausted" => results[p].fetches = retryAttempts
       /\ p \in accepted /\ results[p].cause # "none" =>
             results[p].success /\ results[p].cause = "ok"

\* a save that failed twice and succeeded on the third fetch
C11_Witness ==
  \E p \in Payloads :
    /\ results[p].fetches = retryAttempts
    /\ results[p].success
    /\ p \in accepted


(***************************************************************************)
(* Claims about the ApiAdapter offline queue (checked under SpecApi)       *)
(***************************************************************************)
Range(f) == {f[n] : n \in DOMAIN f}

\* p was put in the offline queue before q
QueuedBefore(p, q) ==
  \E m \in 1..Len(queuedOrder), n \in 1..Len(queuedOrder) :
    m < n /\ queuedOrder[m] = p /\ queuedOrder[n] = q

\* connectivity is back and nothing is queued, awaited or timed
Quiescent ==
  /\ isOnline
  /\ offlineQueue = <<>>
  /\ \A o \in Owners : tasks[o] = NoTask

\* a request carrying payload p is on its way to the remote
InTransit(p) ==
  \E o \in Owners : tasks[o].phase = "fetch" /\ tasks[o].payload = p

\* C4 (as claimed): Exactly-once offline replay. Every operation put in the
\* offline queue is sent to the remote, in FIFO queue order, once connectivity
\* has returned: when the replay has come to rest each queued operation has
\* reached the remote, and no queued operation reaches the remote for the
\* first time while one queued before it has neither reached it nor is on
\* its way. (Repeated attempts of fetchWithRetry for one replay are not
\* counted as repeated sends, and runs with a process restart are left
\* aside.)
C4_ExactlyOnceFifo ==
  /\ []((Quiescent /\ restarts = 0) => Range(queuedOrder) \subseteq reached)
  /\ [][restarts = 0 =>
          \A q \in (reached' \ reached) \cap Range(queuedOrder) :
            \A p \in Range(queuedOrder) :
              QueuedBefore(p, q) => (p \in reached \/ InTransit(p))]_vars

\* C5 (as claimed): A write is never dropped. A save() that could not reach
\* the remote, because the device was offline or because fetchWithRetry used
\* up its attempts, has queued the write and returned success = true.
C5_WriteNeverDropped ==
  \A p \in Payloads :
    results[p].cause \in {"offline", "exhausted"}
      => results[p].success /\ results[p].queued

\* C6 (as claimed): Offline queue survives restart. The operations persisted
\* before a restart are the pending queue of the new instance.
C6_QueueSurvivesRestart ==
  [][Restart => offlineQueue' = storedQueue.queue]_vars


(***************************************************************************)
(* WebSocketCollaborationService: connect, reconnect, heartbeat, teardown  *)
(***************************************************************************)
maxReconnectAttempts == 5
reconnectDelay == 1000


\* attemptReconnect with the ceiling test off by one (> for >=)
attemptReconnect_offByOne ==
  IF reconnectAttempts > maxReconnectAttempts
  THEN /\ fatal' = TRUE
       /\ UNCHANGED <<reconnectAttempts, timer>>
  ELSE /\ reconnectAttempts' = reconnectAttempts + 1
       /\ timer' = reconnectDelay * Pow2((reconnectAttempts + 1) - 1)
       /\ UNCHANGED fatal

\* attemptReconnect(url)
attemptReconnect ==
  IF reconnectAttempts >= maxReconnectAttempts
  THEN /\ fatal' = TRUE
       /\ UNCHANGED <<reconnectAttempts, timer>>
  ELSE /\ reconnectAttempts' = reconnectAttempts + 1
       /\ timer' = reconnectDelay * Pow2((reconnectAttempts + 1) - 1)
       /\ UNCHANGED fatal

\* ws.onclose: onConnectionChange(false); stopHeartbeat(); attemptReconnect(url)
OnClose ==
  /\ sock' = "closed"
  /\ connected' = FALSE
  /\ heartbeatInterval' = FALSE
  /\ failures' = failures + 1
  /\ attemptReconnect
  /\ UNCHANGED <<wsRef, autoSaveTimer, disconnected, connectedAfter>>

\* ws.onopen: reconnectAttempts = 0; startHeartbeat(); requestSync()
SocketOpens ==
  /\ sock = "connecting"
  /\ sock' = "open"
  /\ reconnectAttempts' = 0
  /\ connected' = TRUE
  /\ failures' = 0
  /\ heartbeatInterval' = TRUE
  /\ UNCHANGED <<wsRef, timer, autoSaveTimer, fatal, disconnected, connectedAfter>>

\* the connection attempt fails: ws.onerror, then ws.onclose
ConnectFails ==
  /\ sock = "connecting"
  /\ OnClose

\* the open connection is lost: ws.onclose
ConnectionLost ==
  /\ sock = "open"
  /\ OnClose

\* the close handshake started by ws.close() ends: ws.onclose
CloseCompletes ==
  /\ sock = "closing"
  /\ OnClose

\* the reconnect timer fires: connect(url) makes a new WebSocket
ReconnectTimerFires ==
  /\ timer # 0
  /\ timer' = 0
  /\ sock' = "connecting"
  /\ wsRef' = TRUE
  /\ connectedAfter' = (connectedAfter \/ disconnected)
  /\ UNCHANGED <<connected, reconnectAttempts, heartbeatInterval, autoSaveTimer,
                 fatal, failures, disconnected>>

\* WebSocketCollaborationService.disconnect(): stopHeartbeat(); ws.close();
\* ws = null.  close() on a socket that is connecting or open starts the
\* close handshake; the handlers stay attached and the reconnect timer is
\* not cleared.
disconnect ==
  /\ heartbeatInterval' = FALSE
  /\ sock' = IF wsRef /\ sock \in {"connecting", "open"} THEN "closing" ELSE sock
  /\ wsRef' = FALSE
  /\ disconnected' = TRUE
  /\ UNCHANGED <<connected, reconnectAttempts, timer, fatal, failures,
                 connectedAfter>>

\* the application calls service.disconnect() (ApiAdapter.disconnect())
Disconnect ==
  /\ disconnect
  /\ UNCHANGED autoSaveTimer

\* PersistenceManager.destroy(): stopAutoSave(); apiAdapter.disconnect()
Destroy ==
  /\ autoSaveTimer' = FALSE
  /\ disconnect

\* PersistenceManager.stopAutoSave(), called on its own
StopAutoSave ==
  /\ autoSaveTimer
  /\ autoSaveTimer' = FALSE
  /\ UNCHANGED <<sock, wsRef, connected, reconnectAttempts, timer, heartbeatInterval,
                 fatal, failures, disconnected, connectedAfter>>

InitWs ==
  /\ sock = "connecting"
  /\ wsRef = TRUE
  /\ connected = FALSE
  /\ reconnectAttempts = 0
  /\ timer = 0
  /\ heartbeatInterval = FALSE
  /\ autoSaveTimer = TRUE    \* config.autoSave defaults to true
  /\ fatal = FALSE
  /\ failures = 0
  /\ disconnected = FALSE
  /\ connectedAfter = FALSE

NextWs ==
  \/ SocketOpens /\ UNCHANGED <<crdtVars, pmVars, apiVars, lsVars, cfVars, uiVars, vcVars, mgVars, prVars>>
  \/ ConnectFails /\ UNCHANGED <<crdtVars, pmVars, apiVars, lsVars, cfVars, uiVars, vcVars, mgVars, prVars>>
  \/ ConnectionLost /\ UNCHANGED <<crdtVars, pmVars, apiVars, lsVars, cfVars, uiVars, vcVars, mgVars, prVars>>
  \/ CloseCompletes /\ UNCHANGED <<crdtVars, pmVars, apiVars, lsVars, cfVars, uiVars, vcVars, mgVars, prVars>>
  \/ ReconnectTimerFires /\ UNCHANGED <<crdtVars, pmVars, apiVars, lsVars, cfVars, uiVars, vcVars, mgVars, prVars>>
  \/ Disconnect /\ UNCHANGED <<crdtVars, pmVars, apiVars, lsVars, cfVars, uiVars, vcVars, mgVars, prVars>>
  \/ Destroy /\ UNCHANGED <<crdtVars, pmVars, apiVars, lsVars, cfVars, uiVars, vcVars, mgVars, prVars>>
  \/ StopAutoSave /\ UNCHANGED <<crdtVars, pmVars, apiVars, lsVars, cfVars, uiVars, vcVars, mgVars, prVars>>

(***************************************************************************)
(* Claims about the channel (checked under SpecWs)                         *)
(***************************************************************************)

\* C9 (as claimed): Teardown halts the channel. After disconnect() no
\* heartbeat, reconnect or autosave timer is pending and no connection
\* attempt is made. (The autosave timer is the caller's after a plain
\* disconnect(); it is required to be gone after destroy() only.)
C9_TeardownHalts ==
  disconnected => /\ ~heartbeatInterval
                  /\ timer = 0
                  /\ ~connectedAfter

\* C10: Bounded reconnect. The reconnect scheduled after the k-th
\* consecutive close waits reconnectDelay * 2^(k-1); after
\* maxReconnectAttempts failed reconnects the next close raises the fatal
\* error, and from then on no reconnect is scheduled and no socket is made.
C10_BoundedReconnect ==
  /\ timer # 0 => /\ failures \in 1..maxReconnectAttempts
                  /\ timer = reconnectDelay * Pow2(failures - 1)
  /\ fatal <=> failures > maxReconnectAttempts
  /\ fatal => timer = 0 /\ sock = "closed"

\* the fatal error was raised after five failed reconnects
C10_Witness ==
  /\ fatal
  /\ failures = maxReconnectAttempts + 1
  /\ reconnectAttempts = maxReconnectAttempts

(***************************************************************************)
(* LocalStorageAdapter: save, load, saveVersion, loadVersion, retention    *)
(* and the quota path, for one document id.  A snapshot (PersistedState)   *)
(* is its data, its metadata.revision and the class of its serialized      *)
(* size: below the ceiling, above it but below once compressed, or above   *)
(* it either way.  No code of the repository writes an '_autosave' key, so *)
(* the auto-save part of freeUpSpace finds nothing to remove.              *)
(***************************************************************************)
maxVersions == 10    \* cleanOldVersions(id, maxVersions = 10)

SnapData == {"a", "b"}
Sizes == {"fits", "compressible", "oversize"}
Quotas == {"none", "main", "meta"}   \* the setItem of save() that throws QuotaExceededError
VersionIds == 1..(maxVersions + MaxExtraVersions)

Snapshot(d, r, z) == [data |-> d, revision |-> r, size |-> z]
NoSnapshot == Snapshot("null", 0, "fits")    \* null
Snapshots == {Snapshot(d, r, z) : d \in SnapData, r \in 0..MaxRevision, z \in Sizes}
\* what PersistenceManager.stateToPersistedState produces
FreshSnapshots == {Snapshot(d, 0, "fits") : d \in SnapData}

\* a stored string: JSON.stringify(state), or its compressed form
stringify(state) == [present |-> TRUE, state |-> state, packed |-> FALSE]
NoText == [present |-> FALSE, state |-> NoSnapshot, packed |-> FALSE]   \* getItem gives null
compress(text) == [text EXCEPT !.packed = TRUE]
\* the snapshot data whose text holds a character above U+00FF
Wide == {"b"}
\* decompress of a compressed text gives the text back.  Of a plain text the
\* atob call throws and fallbackDecompress runs: it copies the characters
\* below U+0100 and replaces a character above them with the previous entry
\* and its first character, leaving a text that JSON.parse rejects
decompress(text) ==
  IF text.packed THEN [text EXCEPT !.packed = FALSE]
  ELSE IF text.state.data \in Wide THEN [text EXCEPT !.state = NoSnapshot]
  ELSE text
\* JSON.parse; it throws on a compressed text and the callers return null
parse(text) == IF text.present /\ ~text.packed THEN text.state ELSE NoSnapshot

\* the localStorage keys of the document
Local == [main |-> lsMain, flag |-> lsFlag, meta |-> lsMeta,
          versions |-> lsVersions, vdata |-> lsVersionData,
          evictedUpTo |-> evictedUpTo]

SetLocal(S) ==
  /\ lsMain' = S.main
  /\ lsFlag' = S.flag
  /\ lsMeta' = S.meta
  /\ lsVersions' = S.versions
  /\ lsVersionData' = S.vdata
  /\ evictedUpTo' = S.evictedUpTo

\* Version.timestamp: Date.now() at saveVersion; version ids are numbered in
\* the order of the calls
timestamp(v) == v

\* versions.sort((a, b) => a.timestamp - b.timestamp)
RECURSIVE sortByTimestamp(_)
sortByTimestamp(list) ==
  IF list = <<>> THEN <<>>
  ELSE LET least == CHOOSE k \in 1..Len(list) :
                      \A j \in 1..Len(list) :
                        \/ timestamp(list[k]) < timestamp(list[j])
                        \/ (timestamp(list[k]) = timestamp(list[j]) /\ k <= j)
           others == [j \in 1..(Len(list) - 1) |->
                        IF j < least THEN list[j] ELSE list[j + 1]]
       IN <<list[least]>> \o sortByTimestamp(others)

\* a cleanOldVersions that keeps the oldest maxVersions versions
cleanOldVersions_keepOldest(S) ==
  IF Len(S.versions) > maxVersions
  THEN LET sorted == sortByTimestamp(S.versions)
           toRemove == {sorted[k] : k \in (maxVersions + 1)..Len(sorted)}
       IN [S EXCEPT !.vdata = [v \in VersionIds |->
                                 IF v \in toRemove THEN NoText ELSE S.vdata[v]],
                    !.versions = SubSeq(sorted, 1, maxVersions)]
  ELSE S

\* cleanOldVersions(id)
cleanOldVersions(S) ==
  IF Len(S.versions) > maxVersions
  THEN LET sorted == sortByTimestamp(S.versions)
           cut == Len(sorted) - maxVersions
           toRemove == {sorted[k] : k \in 1..cut}
       IN [S EXCEPT !.vdata = [v \in VersionIds |->
                                 IF v \in toRemove THEN NoText ELSE S.vdata[v]],
                    !.versions = SubSeq(sorted, cut + 1, Len(sorted))]
  ELSE S

\* freeUpSpace(): every key holding '_version_' goes, the '_versions' list stays
freeUpSpace(S) ==
  [S EXCEPT !.vdata = [v \in VersionIds |-> NoText],
            !.evictedUpTo = IF \E v \in VersionIds : S.vdata[v].present
                            THEN CHOOSE v \in VersionIds :
                                   /\ S.vdata[v].present
                                   /\ \A w \in VersionIds : S.vdata[w].present => w <= v
                            ELSE S.evictedUpTo]

\* what a save() call gives: the storage, the argument object as the call
\* leaves it, the SaveResult, and how many eviction passes and how many
\* setItem calls on the main key it made
Outcome(S, state, ok, rev, err, ev, wr) ==
  [S |-> S, state |-> state, success |-> ok, revision |-> rev, error |-> err,
   evictions |-> ev, writes |-> wr]

\* save(), catch block for a QuotaExceededError: one freeUpSpace, one retry
\* (the retry writes the plain text and leaves the '_compressed' flag)
saveQuotaPath(S, state, retryThrows) ==
  LET S1 == freeUpSpace(S)
  IN IF retryThrows
     THEN Outcome(S1, state, FALSE, 0, "quota", 1, 2)
     ELSE Outcome([S1 EXCEPT !.main = stringify(state)], state, TRUE,
                  state.revision, "none", 1, 2)

\* save(id, state); quota says which setItem throws, retryThrows whether the
\* retry does
localSave(S, state, compression, quota, retryThrows) ==
  IF state.size = "oversize" \/ (state.size = "compressible" /\ ~compression)
  THEN Outcome(S, state, FALSE, 0, "too large", 0, 0)
  ELSE IF quota = "main"
  THEN saveQuotaPath(S, state, retryThrows)
  ELSE LET S1 == [S EXCEPT !.main = IF state.size = "fits" THEN stringify(state)
                                    ELSE compress(stringify(state)),
                           !.flag = (state.size # "fits")]
           state1 == [state EXCEPT !.revision = state.revision + 1]
       IN IF quota = "meta"
          THEN LET r == saveQuotaPath(S1, state1, retryThrows)
               IN [r EXCEPT !.writes = 1 + (r.writes - 1)]
          ELSE Outcome(cleanOldVersions([S1 EXCEPT !.meta = state1.revision]),
                       state1, TRUE, state1.revision, "none", 0, 1)

\* load(id)
localLoad(S, compression) ==
  IF ~S.main.present THEN NoSnapshot
  ELSE IF S.flag /\ compression THEN parse(decompress(S.main))
  ELSE parse(S.main)

\* loadVersion(id, versionId)
loadVersion(S, v) == parse(S.vdata[v])

NoCall == [op |-> "none", before |-> NoSnapshot, after |-> NoSnapshot,
           success |-> FALSE, evictions |-> 0, writes |-> 0]

\* a caller runs save(id, state)
LocalSave(state, quota, retryThrows) ==
  LET r == localSave(Local, state, enableCompression, quota, retryThrows)
  IN /\ SetLocal(r.S)
     /\ call' = [op |-> "save", before |-> state, after |-> r.state,
                 success |-> r.success, evictions |-> r.evictions, writes |-> r.writes]
     /\ UNCHANGED <<enableCompression, created, remoteDoc, hyb>>

\* a caller runs saveVersion(id, state); a setItem that throws here leaves at
\* most an unlisted key, which no call can name
LocalSaveVersion(state) ==
  /\ Len(created) < maxVersions + MaxExtraVersions
  /\ LET v == Len(created) + 1
     IN /\ lsVersionData' = [lsVersionData EXCEPT ![v] = stringify(state)]
        /\ lsVersions' = Append(lsVersions, v)
        /\ created' = Append(created, state)
  /\ call' = [op |-> "saveVersion", before |-> state, after |-> state,
              success |-> TRUE, evictions |-> 0, writes |-> 0]
  /\ UNCHANGED <<enableCompression, lsMain, lsFlag, lsMeta, evictedUpTo, remoteDoc, hyb>>

\* new LocalStorageAdapter(compression) over the same localStorage
Construct(compression) ==
  /\ enableCompression # compression
  /\ enableCompression' = compression
  /\ call' = NoCall
  /\ UNCHANGED <<lsMain, lsFlag, lsMeta, lsVersions, lsVersionData, created,
                 evictedUpTo, remoteDoc, hyb>>

\* the hybrid adapter's call: the snapshot it was given (or found on the
\* remote), that object as the call leaves it, the two results, what it returns
NoHybrid == [op |-> "none", phase |-> "idle", produced |-> NoSnapshot,
             arg |-> NoSnapshot, localOk |-> FALSE, remote |-> "none",
             from |-> "none", success |-> FALSE, returned |-> NoSnapshot,
             log |-> <<>>]

InitLocal ==
  /\ enableCompression = TRUE
  /\ lsMain = NoText
  /\ lsFlag = FALSE
  /\ lsMeta = 0
  /\ lsVersions = <<>>
  /\ lsVersionData = [v \in VersionIds |-> NoText]
  /\ created = <<>>
  /\ evictedUpTo = 0
  /\ call = NoCall
  /\ remoteDoc = NoSnapshot
  /\ hyb = NoHybrid

\* save() with any snapshot, with and without compression
NextLocal ==
  \/ (\E state \in Snapshots, quota \in Quotas, retryThrows \in BOOLEAN :
        LocalSave(state, quota, retryThrows))
       /\ UNCHANGED <<crdtVars, pmVars, apiVars, wsVars, cfVars, uiVars, vcVars, mgVars, prVars>>
  \/ (\E compression \in BOOLEAN : Construct(compression))
       /\ UNCHANGED <<crdtVars, pmVars, apiVars, wsVars, cfVars, uiVars, vcVars, mgVars, prVars>>

\* saveVersion() and save() with the snapshots the PersistenceManager makes;
\* the save goes through, at once or after one eviction pass
NextVersions ==
  \/ (\E state \in FreshSnapshots : LocalSaveVersion(state))
       /\ UNCHANGED <<crdtVars, pmVars, apiVars, wsVars, cfVars, uiVars, vcVars, mgVars, prVars>>
  \/ (\E quota \in {"none", "main"} :
        LocalSave(Snapshot("a", 0, "fits"), quota, FALSE))
       /\ UNCHANGED <<crdtVars, pmVars, apiVars, wsVars, cfVars, uiVars, vcVars, mgVars, prVars>>

(***************************************************************************)
(* Claims about the LocalStorageAdapter (checked under SpecLocal and       *)
(* SpecVersions)                                                           *)
(***************************************************************************)

C17_QuotaHandling ==
  (/\ call.op = "save"
   /\ \/ call.before.size = "oversize"
      \/ (call.before.size = "compressible" /\ ~enableCompression))
  => /\ call.evictions = 1
     /\ call.writes \in {1, 2}

\* C20 (as claimed): Snapshot immutability. save(id, snapshot) leaves the
\* PersistedState object it was given unchanged (metadata.revision included).
C20_SnapshotUnchanged ==
  call.op = "save" => call.after = call.before

(***************************************************************************)
(* The hybrid adapter of PersistenceManager (mode 'hybrid' with an         *)
(* apiConfig, so that both adapters exist): save and load.  The remote     *)
(* call is seen through its outcome.                                       *)
(***************************************************************************)
\* how apiAdapter.save ends: success, success=true after queueing offline,
\* success=false, or an exception
RemoteSaveOutcomes == {"ok", "queued", "failed", "throws"}
\* how apiAdapter.load ends: the remote document (null on 404 and on failure,
\* the 'opensheets_cache_' key it falls back to is never written), or an exception
RemoteLoadOutcomes == {"ok", "unreachable", "throws"}

\* the snapshots PersistenceManager.performSave hands to the hybrid save, of
\* a size the local cache takes or refuses
HybridSnapshots == {Snapshot(d, 0, z) : d \in SnapData, z \in {"fits", "oversize"}}
\* the documents the remote store may hold
RemoteSnapshots == {Snapshot(d, r, z) : d \in SnapData, r \in 0..MaxRevision,
                                        z \in {"fits", "oversize"}}

\* a hybrid save that answers with the remote result whatever it is
hybridSaveReturn_remoteAlways(outcome) == "remote"

\* hybrid save(): which result it returns
hybridSaveReturn(outcome) ==
  IF outcome \in {"ok", "queued"} THEN "remote" ELSE "local"

\* hybrid save(id, state), up to `await self.apiAdapter.save`: the local save
\* has run to its end
HybridSaveLocal(state, quota, retryThrows) ==
  /\ hyb.phase # "remote"
  /\ LET r == localSave(Local, state, enableCompression, quota, retryThrows)
     IN /\ SetLocal(r.S)
        /\ hyb' = [op |-> "save", phase |-> "remote", produced |-> state,
                   arg |-> r.state, localOk |-> r.success, remote |-> "none",
                   from |-> "none", success |-> FALSE, returned |-> NoSnapshot,
                   log |-> <<"local">>]
  /\ UNCHANGED <<enableCompression, created, call, remoteDoc>>

\* hybrid save(), from the call of apiAdapter.save to the return
HybridSaveRemote(outcome) ==
  /\ hyb.phase = "remote"
  /\ remoteDoc' = IF outcome = "ok" THEN hyb.arg ELSE remoteDoc
  /\ hyb' = [hyb EXCEPT !.phase = "done", !.remote = outcome,
                        !.from = hybridSaveReturn(outcome),
                        !.success = IF hybridSaveReturn(outcome) = "remote"
                                    THEN outcome \in {"ok", "queued"}
                                    ELSE hyb.localOk,
                        !.log = Append(hyb.log, "remote")]
  /\ UNCHANGED <<enableCompression, lsMain, lsFlag, lsMeta, lsVersions,
                 lsVersionData, created, evictedUpTo, call>>

\* hybrid load(id)
HybridLoad(outcome, quota, retryThrows) ==
  /\ hyb.phase # "remote"
  /\ IF outcome = "ok" /\ remoteDoc # NoSnapshot
     THEN LET r == localSave(Local, remoteDoc, enableCompression, quota, retryThrows)
          IN /\ SetLocal(r.S)
             /\ hyb' = [op |-> "load", phase |-> "done", produced |-> remoteDoc,
                        arg |-> r.state, localOk |-> r.success, remote |-> outcome,
                        from |-> "remote", success |-> TRUE, returned |-> r.state,
                        log |-> <<"remote", "local">>]
     ELSE /\ hyb' = [op |-> "load", phase |-> "done", produced |-> NoSnapshot,
                     arg |-> NoSnapshot, localOk |-> FALSE, remote |-> outcome,
                     from |-> "local", success |-> TRUE,
                     returned |-> localLoad(Local, enableCompression),
                     log |-> <<"remote">>]
          /\ UNCHANGED <<lsMain, lsFlag, lsMeta, lsVersions, lsVersionData,
                         evictedUpTo>>
  /\ UNCHANGED <<enableCompression, created, call, remoteDoc>>

\* another client replaces the document of the remote store
RemoteChange(state) ==
  /\ hyb.phase # "remote"
  /\ remoteDoc # state
  /\ remoteDoc' = state
  /\ UNCHANGED <<enableCompression, lsMain, lsFlag, lsMeta, lsVersions,
                 lsVersionData, created, evictedUpTo, call, hyb>>

NextHybrid ==
  \/ (\E state \in HybridSnapshots, quota \in Quotas, retryThrows \in BOOLEAN :
        HybridSaveLocal(state, quota, retryThrows))
       /\ UNCHANGED <<crdtVars, pmVars, apiVars, wsVars, cfVars, uiVars, vcVars, mgVars, prVars>>
  \/ (\E outcome \in RemoteSaveOutcomes : HybridSaveRemote(outcome))
       /\ UNCHANGED <<crdtVars, pmVars, apiVars, wsVars, cfVars, uiVars, vcVars, mgVars, prVars>>
  \/ (\E outcome \in RemoteLoadOutcomes, quota \in Quotas, retryThrows \in BOOLEAN :
        HybridLoad(outcome, quota, retryThrows))
       /\ UNCHANGED <<crdtVars, pmVars, apiVars, wsVars, cfVars, uiVars, vcVars, mgVars, prVars>>
  \/ (\E state \in RemoteSnapshots : RemoteChange(state))
       /\ UNCHANGED <<crdtVars, pmVars, apiVars, wsVars, cfVars, uiVars, vcVars, mgVars, prVars>>

(***************************************************************************)
(* Claims about the hybrid adapter (checked under SpecHybrid)              *)
(***************************************************************************)

\* C12 (as claimed): Hybrid load precedence. A load() that found the document
\* on the reachable remote returns the remote snapshot unchanged and leaves
\* the local copy equal to what it returned; a load() that could not reach
\* the remote returns the snapshot the local cache holds.
C12_LoadPrecedence ==
  hyb.op = "load" =>
    /\ hyb.from = "remote" =>
         /\ hyb.returned = hyb.produced
         /\ localLoad(Local, enableCompression) = hyb.returned
    /\ hyb.remote # "ok" => hyb.returned = localLoad(Local, enableCompression)

Strategies == {"last-write-wins", "manual", "merge"}
ServerValues == {"s", "undefined"}   \* conflict.serverValue; it can be missing
Conflict(key, v, t) == [cell |-> key, serverValue |-> v, serverTimestamp |-> t]
Conflicts == {Conflict(key, v, t) : key \in Cells, v \in ServerValues, t \in 0..MaxTime}
\* result.conflicts of a save response (non-empty)
ConflictLists == UNION {[1..n -> Conflicts] : n \in 1..MaxConflicts}

\* operations.sort((a, b) => a.timestamp - b.timestamp) on a list of ids
RECURSIVE sortOperations(_)
sortOperations(list) ==
  IF list = <<>> THEN <<>>
  ELSE LET least == CHOOSE k \in 1..Len(list) :
                      \A j \in 1..Len(list) :
                        \/ ops[list[k]].timestamp < ops[list[j]].timestamp
                        \/ (ops[list[k]].timestamp = ops[list[j]].timestamp /\ k <= j)
           others == [j \in 1..(Len(list) - 1) |->
                        IF j < least THEN list[j] ELSE list[j + 1]]
       IN <<list[least]>> \o sortOperations(others)

\* getOperationsSince(clock): the ids of the logged operations with a clock
\* component above clock's, sorted by timestamp
getOperationsSince(c, clock) ==
  LET isNewer(i) == \E u \in Users : ops[i].vectorClock[u] > clock[u]
  IN sortOperations(SelectSeq(SetToSeq(c.operations), isNewer))

\* Array.prototype.find over a list of operation ids: 0 when none matches
find(list, key) ==
  IF \E k \in 1..Len(list) : ops[list[k]].cell = key
  THEN list[CHOOSE k \in 1..Len(list) :
              /\ ops[list[k]].cell = key
              /\ \A j \in 1..(k - 1) : ops[list[j]].cell # key]
  ELSE 0

\* mergeValues(local, server) on plain values
mergeValues(local, server) ==
  IF local = "undefined" THEN (IF server = "undefined" THEN "null" ELSE server)
  ELSE local

\* resolveConflicts(conflicts, localState) under the strategy, with the
\* adapter's CRDT c; localState holds the one cell localKey with localValue
resolveConflicts(strategy, c, conflicts, localKey, localValue) ==
  LET localCell(k) == IF conflicts[k].cell = localKey THEN localValue ELSE "undefined"
      localOp(k) == find(getOperationsSince(c, ZeroClock), conflicts[k].cell)
      resolutionOf(k) ==
        IF strategy = "last-write-wins"
        THEN IF localOp(k) # 0 /\ ops[localOp(k)].timestamp > conflicts[k].serverTimestamp
             THEN localCell(k)
             ELSE conflicts[k].serverValue
        ELSE IF strategy = "merge"
        THEN mergeValues(localCell(k), conflicts[k].serverValue)
        ELSE "undefined"
      cellConflicts ==
        [k \in 1..Len(conflicts) |->
           [cell |-> conflicts[k].cell,
            localValue |-> IF localCell(k) = "undefined" THEN "null" ELSE localCell(k),
            serverValue |-> conflicts[k].serverValue,
            serverTimestamp |-> conflicts[k].serverTimestamp,
            resolution |-> resolutionOf(k)]]
  IN [type |-> IF strategy = "manual" THEN "manual" ELSE "auto-merged",
      conflicts |-> cellConflicts,
      resolved |-> \A k \in 1..Len(conflicts) : cellConflicts[k].resolution # "undefined",
      reported |-> conflicts,
      logLen |-> Len(ops)]

NoResolution == [type |-> "none", conflicts |-> <<>>, resolved |-> FALSE,
                 reported |-> <<>>, logLen |-> 0]

\* a save() that awaits the response of the server, with its one-cell snapshot
Pending(key, v) == [type |-> "pending", conflicts |-> <<>>, resolved |-> FALSE,
                    reported |-> <<>>, logLen |-> 0, cell |-> key, value |-> v]

\* save(id, state) up to `await this.fetchWithRetry`: the cell of the snapshot
\* is logged in the CRDT
SaveLogged(key, v) ==
  /\ conflictResolution.type # "pending"
  /\ SetCell("u1", key, v)
  /\ conflictResolution' = Pending(key, v)
  /\ UNCHANGED <<conflictStrategy, onConflictCalls>>

\* save() from a 2xx response without conflicts on
SaveClean ==
  /\ conflictResolution.type = "pending"
  /\ conflictResolution' = NoResolution
  /\ UNCHANGED <<ops, crdt, now, conflictStrategy, onConflictCalls>>

\* save() from a 2xx response with result.conflicts on: the SaveResult carries
\* the ConflictResolution; neither save() nor PersistenceManager.performSave
\* (which calls onSaveComplete only) calls config.onConflict
SaveConflicting(conflicts) ==
  /\ conflictResolution.type = "pending"
  /\ conflictResolution' =
       resolveConflicts(conflictStrategy, crdt["u1"], conflicts,
                        conflictResolution.cell, conflictResolution.value)
  /\ UNCHANGED <<ops, crdt, now, conflictStrategy, onConflictCalls>>

\* the wall clock of the adapter advances
AdapterTick ==
  /\ Tick("u1")
  /\ UNCHANGED <<conflictStrategy, conflictResolution, onConflictCalls>>

\* new ApiAdapter({conflictStrategy: strategy}): a new SpreadsheetCRDT
NewAdapter(strategy) ==
  /\ strategy # conflictStrategy
  /\ conflictStrategy' = strategy
  /\ crdt' = [crdt EXCEPT !["u1"] = NewCRDT("u1")]
  /\ conflictResolution' = NoResolution
  /\ UNCHANGED <<ops, now, onConflictCalls>>

InitConflict ==
  /\ conflictStrategy = "merge"    \* config default
  /\ conflictResolution = NoResolution
  /\ onConflictCalls = <<>>

NextConflict ==
  \/ (\E key \in Cells, v \in Values : SaveLogged(key, v))
       /\ UNCHANGED <<pmVars, apiVars, wsVars, lsVars, uiVars, vcVars, mgVars, prVars>>
  \/ SaveClean /\ UNCHANGED <<pmVars, apiVars, wsVars, lsVars, uiVars, vcVars, mgVars, prVars>>
  \/ (\E conflicts \in ConflictLists : SaveConflicting(conflicts))
       /\ UNCHANGED <<pmVars, apiVars, wsVars, lsVars, uiVars, vcVars, mgVars, prVars>>
  \/ AdapterTick /\ UNCHANGED <<pmVars, apiVars, wsVars, lsVars, uiVars, vcVars, mgVars, prVars>>
  \/ (\E strategy \in Strategies : NewAdapter(strategy))
       /\ UNCHANGED <<pmVars, apiVars, wsVars, lsVars, uiVars, vcVars, mgVars, prVars>>

(***************************************************************************)
(* Claims about conflict resolution (checked under SpecConflict)           *)
(***************************************************************************)

\* C15 (as claimed): Manual conflict strategy. When a save reports conflicts
\* under 'manual', the ConflictResolution has resolved = false, every
\* conflict's resolution is unset, and onConflict has been invoked with
\* exactly those conflicts.
C15_ManualStrategy ==
  conflictResolution.type = "manual" =>
    /\ ~conflictResolution.resolved
    /\ \A k \in 1..Len(conflictResolution.conflicts) :
         conflictResolution.conflicts[k].resolution = "undefined"
    /\ onConflictCalls # <<>>
    /\ onConflictCalls[Len(onConflictCalls)] = conflictResolution.reported

\* the latest operation the adapter's CRDT has logged on a cell, 0 when none
LatestLocalOp(key) ==
  LET mine == {i \in crdt["u1"].operations : ops[i].cell = key}
  IN IF mine = {} THEN 0
     ELSE CHOOSE i \in mine : \A j \in mine :
            \/ ops[j].timestamp < ops[i].timestamp
            \/ (ops[j].timestamp = ops[i].timestamp /\ j <= i)

\* C16 (as claimed): Last-write-wins resolution. For a conflict on a cell of
\* the local snapshot, the resolution is the local value when the latest
\* local operation logged on that cell is later than the server's timestamp,
\* and the server's value when the server's timestamp is later.
C16_LastWriteWins ==
  (conflictResolution.type = "auto-merged" /\ conflictStrategy = "last-write-wins"
     /\ conflictResolution.logLen = Len(ops)) =>
    \A k \in 1..Len(conflictResolution.conflicts) :
      LET cc == conflictResolution.conflicts[k]
          latest == LatestLocalOp(cc.cell)
      IN (cc.localValue # "null" /\ latest # 0) =>
           /\ ops[latest].timestamp > cc.serverTimestamp => cc.resolution = cc.localValue
           /\ ops[latest].timestamp < cc.serverTimestamp => cc.resolution = cc.serverValue

(***************************************************************************)
(* SpreadsheetProviderPersisted: the auto-save effect, the Ctrl+S handler  *)
(* and saveData.  The effect runs after every render in which state.data   *)
(* (a new Map on every data change), state.editing or the autoSave prop    *)
(* changed; its cleanup clears the timer the previous run set.  Time is in *)
(* milliseconds and advances in steps of half the interval.  A timer       *)
(* callback runs at its deadline or later.                                 *)
(***************************************************************************)
autoSaveInterval == 5000    \* the autoSaveInterval prop default (ms)
TimeStep == autoSaveInterval \div 2
NoTimer == -1

\* JSON.stringify(state.data): state.data is a Map, which serializes as "{}"
jsonOfMap(rev) == "{}"

NoStart == [kind |-> "none", at |-> 0, sinceMutation |-> 0, editing |-> FALSE]

\* an effect that leaves a running timer alone
autoSaveEffect_keepTimer(unsaved, lastSaved, rev, edit, enabled, t, running) ==
  IF ~enabled THEN [unsaved |-> unsaved, timer |-> NoTimer]
  ELSE LET unsaved1 == unsaved \/ (jsonOfMap(rev) # lastSaved)
       IN [unsaved |-> unsaved1,
           timer |-> IF unsaved1 /\ ~edit
                     THEN (IF running # NoTimer THEN running ELSE t + autoSaveInterval)
                     ELSE NoTimer]

\* the auto-save effect: cleanup of the previous run (which clears the timer
\* `running`, if any), then the body; gives hasUnsavedChanges.current and the
\* deadline of autoSaveTimer.current
autoSaveEffect(unsaved, lastSaved, rev, edit, enabled, t, running) ==
  IF ~enabled THEN [unsaved |-> unsaved, timer |-> NoTimer]
  ELSE LET unsaved1 == unsaved \/ (jsonOfMap(rev) # lastSaved)
       IN [unsaved |-> unsaved1,
           timer |-> IF unsaved1 /\ ~edit THEN t + autoSaveInterval ELSE NoTimer]

\* a render after which the effect runs
Rerender(unsaved, lastSaved, rev, edit, enabled) ==
  LET e == autoSaveEffect(unsaved, lastSaved, rev, edit, enabled, uiNow, uiTimer)
  IN /\ hasUnsavedChanges' = e.unsaved
     /\ uiTimer' = e.timer

\* saveData() is called: the save starts
StartSave(kind) ==
  /\ uiSaves < MaxUiSaves
  /\ uiSaves' = uiSaves + 1
  /\ uiPending' = uiPending + 1
  /\ lastStart' = [kind |-> kind, at |-> uiNow,
                   sinceMutation |-> uiNow - lastMutationAt, editing |-> editing]

\* the data changes: through the context's setCell (which sets
\* hasUnsavedChanges) or through a plain dispatch
Mutate(viaSetCell) ==
  /\ dataRev < MaxMutations
  /\ dataRev' = dataRev + 1
  /\ lastMutationAt' = uiNow
  /\ Rerender(hasUnsavedChanges \/ viaSetCell, lastSavedState, dataRev + 1,
              editing, autoSaveProp)
  /\ UNCHANGED <<uiNow, editing, lastSavedState, autoSaveProp, uiSaves, uiPending,
                 lastStart>>

\* a cell editor opens or closes: state.editing changes
SetEditing(edit) ==
  /\ editing # edit
  /\ editing' = edit
  /\ Rerender(hasUnsavedChanges, lastSavedState, dataRev, edit, autoSaveProp)
  /\ UNCHANGED <<uiNow, dataRev, lastMutationAt, lastSavedState, autoSaveProp,
                 uiSaves, uiPending, lastStart>>

\* the autoSave prop changes
SetAutoSave(enabled) ==
  /\ autoSaveProp # enabled
  /\ autoSaveProp' = enabled
  /\ Rerender(hasUnsavedChanges, lastSavedState, dataRev, editing, enabled)
  /\ UNCHANGED <<uiNow, dataRev, lastMutationAt, editing, lastSavedState,
                 uiSaves, uiPending, lastStart>>

\* the setTimeout callback of the effect runs: saveData()
AutoSaveFires ==
  /\ uiTimer # NoTimer
  /\ uiNow >= uiTimer
  /\ uiTimer' = NoTimer
  /\ StartSave("auto")
  /\ UNCHANGED <<uiNow, dataRev, lastMutationAt, editing, hasUnsavedChanges,
                 lastSavedState, autoSaveProp>>

\* Ctrl+S, or save() of the context: saveData()
ManualSave ==
  /\ StartSave("manual")
  /\ UNCHANGED <<uiNow, dataRev, lastMutationAt, editing, hasUnsavedChanges,
                 lastSavedState, autoSaveProp, uiTimer>>

\* saveData() after `await persistenceManager.current.save(state)`
SaveDataReturns(success) ==
  /\ uiPending > 0
  /\ uiPending' = uiPending - 1
  /\ lastSavedState' = IF success THEN jsonOfMap(dataRev) ELSE lastSavedState
  /\ hasUnsavedChanges' = IF success THEN FALSE ELSE hasUnsavedChanges
  /\ UNCHANGED <<uiNow, dataRev, lastMutationAt, editing, autoSaveProp, uiTimer,
                 uiSaves, lastStart>>

\* time passes
Advance ==
  /\ uiNow < MaxTicks * TimeStep
  /\ uiNow' = uiNow + TimeStep
  /\ UNCHANGED <<dataRev, lastMutationAt, editing, hasUnsavedChanges,
                 lastSavedState, autoSaveProp, uiTimer, uiSaves, uiPending, lastStart>>

\* after the first render and the first run of the effect: lastSavedState is
\* '' and the data serializes as "{}", so a timer is set
InitAutoSave ==
  /\ uiNow = 0
  /\ dataRev = 0
  /\ lastMutationAt = 0
  /\ editing = FALSE
  /\ autoSaveProp = TRUE
  /\ lastSavedState = ""
  /\ hasUnsavedChanges = autoSaveEffect(FALSE, "", 0, FALSE, TRUE, 0, NoTimer).unsaved
  /\ uiTimer = autoSaveEffect(FALSE, "", 0, FALSE, TRUE, 0, NoTimer).timer
  /\ uiSaves = 0
  /\ uiPending = 0
  /\ lastStart = NoStart

NextAutoSave ==
  \/ (\E viaSetCell \in BOOLEAN : Mutate(viaSetCell))
       /\ UNCHANGED <<crdtVars, pmVars, apiVars, wsVars, lsVars, cfVars, vcVars, mgVars, prVars>>
  \/ (\E edit \in BOOLEAN : SetEditing(edit))
       /\ UNCHANGED <<crdtVars, pmVars, apiVars, wsVars, lsVars, cfVars, vcVars, mgVars, prVars>>
  \/ (\E enabled \in BOOLEAN : SetAutoSave(enabled))
       /\ UNCHANGED <<crdtVars, pmVars, apiVars, wsVars, lsVars, cfVars, vcVars, mgVars, prVars>>
  \/ AutoSaveFires /\ UNCHANGED <<crdtVars, pmVars, apiVars, wsVars, lsVars, cfVars, vcVars, mgVars, prVars>>
  \/ ManualSave /\ UNCHANGED <<crdtVars, pmVars, apiVars, wsVars, lsVars, cfVars, vcVars, mgVars, prVars>>
  \/ (\E success \in BOOLEAN : SaveDataReturns(success))
       /\ UNCHANGED <<crdtVars, pmVars, apiVars, wsVars, lsVars, cfVars, vcVars, mgVars, prVars>>
  \/ Advance /\ UNCHANGED <<crdtVars, pmVars, apiVars, wsVars, lsVars, cfVars, vcVars, mgVars, prVars>>

(***************************************************************************)
(* Claims about auto-save (checked under SpecAutoSave)                     *)
(***************************************************************************)

C21_DeltaSyncExact ==
  \A u \in Users, w \in Users :
    u # w =>
      Range(getOperationsSince(crdt[u], crdt[w].vectorClock))
        = crdt[u].operations \ crdt[w].operations

(***************************************************************************)
(* One user, two SpreadsheetCRDT instances: the ApiAdapter makes one with  *)
(* config.userId, and its WebSocketCollaborationService makes another with *)
(* the same userId.  save() logs the snapshot's cell in the first and,     *)
(* after a 2xx response, sends it through updateCell of the second.        *)
(***************************************************************************)
Instances == {"api", "ws"}
originId == "u1"
NoBroadcast == [cell |-> "none", data |-> "undefined"]

\* setCell / deleteCell on one instance: the operation it emits
Emitted(inst, type, key, v) ==
  [id |-> Len(emitted) + 1,
   timestamp |-> now[originId],
   userId |-> originId,
   type |-> type,
   cell |-> key,
   data |-> v,
   vectorClock |-> incrementClock(instCrdt[inst], originId)]

Emit(inst, type, key, v) ==
  /\ Len(emitted) < MaxEmitted
  /\ LET operation == Emitted(inst, type, key, v)
         c1 == [instCrdt[inst] EXCEPT !.vectorClock = operation.vectorClock]
     IN /\ emitted' = Append(emitted, operation)
        /\ instCrdt' = [instCrdt EXCEPT ![inst] = applyOperation(c1, operation)]

\* ApiAdapter.save up to `await this.fetchWithRetry`: this.crdt.setCell
AdapterSaveLogs(key, v) ==
  /\ broadcast = NoBroadcast
  /\ Emit("api", "set", key, v)
  /\ broadcast' = [cell |-> key, data |-> v]

\* ApiAdapter.save after a 2xx response: this.wsService.updateCell
AdapterSaveBroadcasts ==
  /\ broadcast # NoBroadcast
  /\ Emit("ws", "set", broadcast.cell, broadcast.data)
  /\ broadcast' = NoBroadcast

\* ApiAdapter.save when the request fails: nothing is sent
AdapterSaveFails ==
  /\ broadcast # NoBroadcast
  /\ broadcast' = NoBroadcast
  /\ UNCHANGED <<emitted, instCrdt>>

\* ApiAdapter.load after a 2xx response: this.crdt.setCell for a loaded cell
AdapterLoadLogs(key, v) ==
  /\ Emit("api", "set", key, v)
  /\ UNCHANGED broadcast

\* the application calls wsService.updateCell / deleteCell
WsUpdateCell(key, v) ==
  /\ Emit("ws", "set", key, v)
  /\ UNCHANGED broadcast

WsDeleteCell(key) ==
  /\ Emit("ws", "delete", key, "undefined")
  /\ UNCHANGED broadcast

\* a 'sync' message brings back an operation this user emitted
WsSyncsOwn(i) ==
  /\ i \in 1..Len(emitted)
  /\ instCrdt' = [instCrdt EXCEPT !["ws"] = applyOperation(instCrdt["ws"], emitted[i])]
  /\ UNCHANGED <<emitted, broadcast>>

InitOrigin ==
  /\ instCrdt = [inst \in Instances |-> NewCRDT(originId)]
  /\ emitted = <<>>
  /\ broadcast = NoBroadcast

NextOrigin ==
  \/ (\E key \in Cells, v \in Values : AdapterSaveLogs(key, v))
       /\ UNCHANGED <<crdtVars, pmVars, apiVars, wsVars, lsVars, cfVars, uiVars, mgVars, prVars>>
  \/ AdapterSaveBroadcasts
       /\ UNCHANGED <<crdtVars, pmVars, apiVars, wsVars, lsVars, cfVars, uiVars, mgVars, prVars>>
  \/ AdapterSaveFails
       /\ UNCHANGED <<crdtVars, pmVars, apiVars, wsVars, lsVars, cfVars, uiVars, mgVars, prVars>>
  \/ (\E key \in Cells, v \in Values : AdapterLoadLogs(key, v))
       /\ UNCHANGED <<crdtVars, pmVars, apiVars, wsVars, lsVars, cfVars, uiVars, mgVars, prVars>>
  \/ (\E key \in Cells, v \in Values : WsUpdateCell(key, v))
       /\ UNCHANGED <<crdtVars, pmVars, apiVars, wsVars, lsVars, cfVars, uiVars, mgVars, prVars>>
  \/ (\E key \in Cells : WsDeleteCell(key))
       /\ UNCHANGED <<crdtVars, pmVars, apiVars, wsVars, lsVars, cfVars, uiVars, mgVars, prVars>>
  \/ (\E i \in 1..Len(emitted) : WsSyncsOwn(i))
       /\ UNCHANGED <<crdtVars, pmVars, apiVars, wsVars, lsVars, cfVars, uiVars, mgVars, prVars>>

(***************************************************************************)
(* Claims about the operations of one origin (checked under SpecOrigin)    *)
(***************************************************************************)

\* C22 (as claimed): Vector-clock monotonicity. Each operation emitted under
\* an originId carries a vectorClock[originId] strictly greater than that of
\* every operation emitted earlier under the same originId, whether it was
\* emitted through ApiAdapter.save or through the WebSocket service.
C22_ClockMonotonic ==
  \A a \in 1..Len(emitted), b \in 1..Len(emitted) :
    a < b => emitted[a].vectorClock[originId] < emitted[b].vectorClock[originId]

(***************************************************************************)
(* ApiAdapter.mergeValues on whole cells.  A CellData has a value, an      *)
(* optional formula, a format and a metadata object; a field of format or  *)
(* metadata is a value or absent.  An object without fields stands for a   *)
(* missing one (the code reads `x.format || {}`).                          *)
(***************************************************************************)
FormatFields == {"bold", "color"}
MetaFields == {"note"}
FieldValues == {"absent", "a", "b"}
Formulas == {"undefined", "=A1"}
CellDatas == [value : Values, formula : Formulas,
              format : [FormatFields -> FieldValues],
              metadata : [MetaFields -> FieldValues]]
NoCellData == [value |-> "undefined", formula |-> "undefined",
               format |-> [f \in FormatFields |-> "absent"],
               metadata |-> [f \in MetaFields |-> "absent"]]
NullCellData == [NoCellData EXCEPT !.value = "null"]

\* { ...under, ...over } on objects with the fields of DOMAIN under
spread(under, over) ==
  [f \in DOMAIN under |-> IF over[f] # "absent" THEN over[f] ELSE under[f]]


\* mergeValues(local, server); NoCellData is undefined
mergeCellData(local, server) ==
  IF local = NoCellData THEN (IF server = NoCellData THEN NullCellData ELSE server)
  ELSE IF server = NoCellData THEN local
  ELSE LET format == spread(server.format, local.format)
       IN IF local.formula # "undefined"
          THEN [local EXCEPT !.format = format]
          ELSE [value |-> local.value,
                formula |-> "undefined",
                format |-> format,
                metadata |-> spread(server.metadata, local.metadata)]

NoMerge == [local |-> NoCellData, server |-> NoCellData, result |-> NoCellData,
            called |-> FALSE]

\* resolveConflicts under 'merge' calls mergeValues(localCell, conflict.serverValue);
\* one call is followed here
MergeValues(local, server) ==
  /\ ~merged.called
  /\ merged' = [local |-> local, server |-> server,
                result |-> mergeCellData(local, server), called |-> TRUE]

InitMerge == merged = NoMerge

NextMerge ==
  (\E local \in CellDatas \cup {NoCellData}, server \in CellDatas \cup {NoCellData} :
      MergeValues(local, server))
    /\ UNCHANGED <<crdtVars, pmVars, apiVars, wsVars, lsVars, cfVars, uiVars, vcVars, prVars>>

(***************************************************************************)
(* Claims about mergeValues (checked under SpecMerge)                      *)
(***************************************************************************)

\* C24 (as claimed): Merge strategy. When both a local and a server cell
\* exist, the format of the resolution is the union of both formats with the
\* local field winning on overlap; if the local cell carries a formula the
\* resolution has the local value, formula and metadata, otherwise it has
\* the server's value and the local metadata layered over the server's.
C24_MergeStrategy ==
  (merged.called /\ merged.local # NoCellData /\ merged.server # NoCellData) =>
    /\ \A f \in FormatFields :
         merged.result.format[f] =
           IF merged.local.format[f] # "absent" THEN merged.local.format[f]
           ELSE merged.server.format[f]
    /\ IF merged.local.formula # "undefined"
       THEN /\ merged.result.value = merged.local.value
            /\ merged.result.formula = merged.local.formula
            /\ merged.result.metadata = merged.local.metadata
       ELSE /\ merged.result.value = merged.server.value
            /\ \A f \in MetaFields :
                 merged.result.metadata[f] =
                   IF merged.local.metadata[f] # "absent" THEN merged.local.metadata[f]
                   ELSE merged.server.metadata[f]

(***************************************************************************)
(* Claims about version retention (checked under SpecVersions)             *)
(***************************************************************************)

\* C25 (as claimed): Version retention. After any sequence of saveVersion
\* and save calls at most maxVersions versions are listed, the listed ones
\* are the most recent ones, and each of the maxVersions most recent
\* versions is still listed and stored: nothing but the retention rule
\* removes a version.
C25_VersionRetention ==
  LET MostRecent == {v \in 1..Len(created) : v > Len(created) - maxVersions}
  IN /\ Len(lsVersions) <= maxVersions
     /\ Range(lsVersions) \subseteq MostRecent
     /\ \A v \in MostRecent : v \in Range(lsVersions) /\ lsVersionData[v].present

(***************************************************************************)
(* WebSocketCollaborationService: presence.  Time is in milliseconds and   *)
(* advances in steps of half the staleness threshold.                      *)
(***************************************************************************)
staleThreshold == 60000    \* cleanupStalePresence: 1 minute
PresenceStep == staleThreshold \div 2
Cursors == {"undefined", "0:0"}
Selections == {"undefined", "0:0-0:1"}
NoPresence == [present |-> FALSE, cursor |-> "undefined", selection |-> "undefined",
               lastSeen |-> 0]

\* cleanupStalePresence()
cleanupStalePresence(map, t) ==
  [u \in Users |-> IF map[u].present /\ t - map[u].lastSeen > staleThreshold
                   THEN NoPresence ELSE map[u]]

\* getPresence(): the users of the returned map
getPresence == {u \in Users : presenceMap[u].present}

\* a 'presence' message of user u
HandlePresence(u, cursor, selection) ==
  /\ presenceMap' =
       cleanupStalePresence(
         [presenceMap EXCEPT ![u] = [present |-> TRUE, cursor |-> cursor,
                                     selection |-> selection, lastSeen |-> wsNow]],
         wsNow)
  /\ UNCHANGED wsNow

\* a 'cursor' message of user u
HandleCursor(u, cursor) ==
  /\ presenceMap' = IF presenceMap[u].present
                    THEN [presenceMap EXCEPT ![u].cursor = cursor, ![u].lastSeen = wsNow]
                    ELSE presenceMap
  /\ UNCHANGED wsNow

\* a 'selection' message of user u
HandleSelection(u, selection) ==
  /\ presenceMap' = IF presenceMap[u].present
                    THEN [presenceMap EXCEPT ![u].selection = selection,
                                             ![u].lastSeen = wsNow]
                    ELSE presenceMap
  /\ UNCHANGED wsNow

\* time passes and no message arrives
PresenceTick ==
  /\ wsNow < MaxPresenceTicks * PresenceStep
  /\ wsNow' = wsNow + PresenceStep
  /\ UNCHANGED presenceMap

InitPresence ==
  /\ presenceMap = [u \in Users |-> NoPresence]
  /\ wsNow = 0

NextPresence ==
  \/ (\E u \in Users, cursor \in Cursors, selection \in Selections :
        HandlePresence(u, cursor, selection))
       /\ UNCHANGED <<crdtVars, pmVars, apiVars, wsVars, lsVars, cfVars, uiVars, vcVars, mgVars>>
  \/ (\E u \in Users, cursor \in Cursors \ {"undefined"} : HandleCursor(u, cursor))
       /\ UNCHANGED <<crdtVars, pmVars, apiVars, wsVars, lsVars, cfVars, uiVars, vcVars, mgVars>>
  \/ (\E u \in Users, selection \in Selections \ {"undefined"} : HandleSelection(u, selection))
       /\ UNCHANGED <<crdtVars, pmVars, apiVars, wsVars, lsVars, cfVars, uiVars, vcVars, mgVars>>
  \/ PresenceTick
       /\ UNCHANGED <<crdtVars, pmVars, apiVars, wsVars, lsVars, cfVars, uiVars, vcVars, mgVars>>

(***************************************************************************)
(* Claims about presence (checked under SpecPresence)                      *)
(***************************************************************************)

\* C26 (as claimed): Presence staleness. getPresence() never returns an
\* entry whose lastSeen is more than staleThreshold before the current time.
C26_NoStalePresence ==
  \A u \in getPresence : wsNow - presenceMap[u].lastSeen <= staleThreshold

(***************************************************************************)
(* Claims about automatic resolution (checked under SpecConflict)          *)
(***************************************************************************)

\* C27 (as claimed): Under 'last-write-wins' and 'merge' resolveConflicts
\* returns resolved = true and a defined resolution for every conflict, also
\* for a cell that is not in the local snapshot and for a conflict without a
\* server value.
C27_AlwaysResolved ==
  conflictResolution.type = "auto-merged" =>
    /\ conflictResolution.resolved
    /\ \A k \in 1..Len(conflictResolution.conflicts) :
         conflictResolution.conflicts[k].resolution # "undefined"

(***************************************************************************)
(* Claims about what LocalStorageAdapter reads back                        *)
(***************************************************************************)

\* C28 (as claimed, checked under SpecVersions): every version listVersions
\* returns is loadable: loadVersion gives a snapshot, not null.
C28_ListedVersionsLoad ==
  \A k \in 1..Len(lsVersions) : loadVersion(Local, lsVersions[k]) # NoSnapshot

\* C29 (as claimed, checked under SpecLocal): the '_compressed' flag is
\* 'true' exactly when the stored main payload is compressed, and load()
\* after a successful save() returns the data of the saved snapshot.
C29_FlagMatchesPayload ==
  /\ lsMain.present => (lsFlag <=> lsMain.packed)
  /\ (call.op = "save" /\ call.success) =>
       localLoad(Local, enableCompression).data = call.before.data

(***************************************************************************)
(* PersistenceManager.save under fair scheduling: every backend write      *)
(* settles, and the JavaScript engine runs every queued promise job.       *)
(***************************************************************************)
\* adapter.save's promise for write i settles, one way or the other
BackendSettles(i) ==
  (BackendResolve(i) \/ BackendReject(i))
    /\ UNCHANGED <<crdtVars, apiVars, wsVars, lsVars, cfVars, uiVars, vcVars, mgVars, prVars>>

\* the engine runs the promise job at the head of the microtask queue
RunMicrotask ==
  (PerfCont \/ LoopCont \/ ClosureCont \/ SaveRet \/ CallerDone \/ CallerSavesAgain)
    /\ UNCHANGED <<crdtVars, apiVars, wsVars, lsVars, cfVars, uiVars, vcVars, mgVars, prVars>>

Fairness ==
  /\ \A i \in SaveIds : WF_vars(BackendSettles(i))
  /\ WF_vars(RunMicrotask)

(***************************************************************************)
(* Claims about settling (checked under SpecPMLive)                        *)
(***************************************************************************)

\* C30 (as claimed): when every backend write settles, the promise of every
\* save() call eventually settles, and the writes reach the backend in the
\* order of their save() calls.
C30_SavesSettle ==
  /\ \A i \in SaveIds :
       (frames[i].phase # "unused") ~> (frames[i].promise # "pending")
  /\ [](\A a \in 1..Len(writeLog), b \in 1..Len(writeLog) :
          a < b => writeLog[a] < writeLog[b])

Init ==
  /\ InitCRDT
  /\ InitPM
  /\ InitApi
  /\ InitWs
  /\ InitLocal
  /\ InitConflict
  /\ InitAutoSave
  /\ InitOrigin
  /\ InitMerge
  /\ InitPresence

SpecCRDT == Init /\ [][NextCRDT]_vars

SpecPM == Init /\ [][NextPM]_vars

SpecPMLive == Init /\ [][NextPM]_vars /\ Fairness

SpecApi == Init /\ [][NextApi]_vars

SpecRetry == Init /\ [][NextRetry]_vars

SpecWs == Init /\ [][NextWs]_vars

SpecLocal == Init /\ [][NextLocal]_vars

SpecHybrid == Init /\ [][NextHybrid]_vars

SpecConflict == Init /\ [][NextConflict]_vars

SpecAutoSave == Init /\ [][NextAutoSave]_vars

SpecVersions == Init /\ [][NextVersions]_vars

SpecOrigin == Init /\ [][NextOrigin]_vars

SpecMerge == Init /\ [][NextMerge]_vars

SpecPresence == Init /\ [][NextPresence]_vars

====
